---- MODULE Spec2Model ----
(***************************************************************************)
(* serde-sqlx: decoding one PgRow into a serde target shape.               *)
(*                                                                         *)
(* One behaviour of the model is one call of from_pg_row: Init picks the   *)
(* row and the target shape and builds the PgRowDeserializer; the actions  *)
(* are the Deserializer / SeqAccess / MapAccess methods of src/src/lib.rs  *)
(* and the steps of the serde visitor that drives them.                    *)
(*                                                                         *)
(* Values (Rust values and serde_json documents alike) are trees           *)
(*     [t : kind, n : integer payload, ks : keys, vs : children]           *)
(* Strings held in columns are abstracted to integer codes (field n).      *)
(***************************************************************************)
EXTENDS Integers, Sequences, FiniteSets, TLC

\* ------------------------------------------------------------------------
\* Bounds of the model
\* ------------------------------------------------------------------------
MaxCols == 2
MaxArrLen == 2

\* ------------------------------------------------------------------------
\* Values
\* ------------------------------------------------------------------------
N(t, n, ks, vs) == [t |-> t, n |-> n, ks |-> ks, vs |-> vs]

Unit == N("unit", 0, <<>>, <<>>)
BoolV(b) == N("bool", IF b THEN 1 ELSE 0, <<>>, <<>>)
IntV(i) == N("int", i, <<>>, <<>>)
\* the integers of the model lie within 32 bits; the two 64-bit integers that
\* do not are values of their own
I64Min == N("int64", -1, <<>>, <<>>)
I64Max == N("int64", 1, <<>>, <<>>)
I32Min == -2147483647 - 1
I32Max == 2147483647
I16Min == -32768
I16Max == 32767
StrV(c) == N("str", c, <<>>, <<>>)
F32(c) == N("f32", c, <<>>, <<>>)
F64(c) == N("f64", c, <<>>, <<>>)
\* &[u8]: c > 0 is the UTF-8 text of string c, c = 0 is no UTF-8 text
BytesV(c) == N("bytes", c, <<>>, <<>>)
\* the f64 that a narrower number v converts to (v as f64)
AsF64(v) == IF v.t = "f64" THEN v ELSE N("f64", v.n, <<v.t>>, <<>>)
\* the String that to_string() / to_rfc3339() makes of value v
Text(fmt, v) == N("str", v.n, <<fmt, v.t>>, v.vs)
None == N("none", 0, <<>>, <<>>)
Some(x) == N("some", 0, <<>>, <<x>>)
Newtype(x) == N("newtype", 0, <<>>, <<x>>)
SeqV(vs) == N("seq", 0, <<>>, vs)
Rec(ks, vs) == N("rec", 0, ks, vs)
MapV(ks, vs) == N("map", 0, ks, vs)

\* serde_json::Value
JNull == N("null", 0, <<>>, <<>>)
JBool(b) == N("jbool", IF b THEN 1 ELSE 0, <<>>, <<>>)
JNum(i) == N("num", i, <<>>, <<>>)
JStr(c) == N("jstr", c, <<>>, <<>>)
JArr(vs) == N("arr", 0, <<>>, vs)
JObj(ks, vs) == N("obj", 0, ks, vs)

\* Result<T, DeError>
Ok(v) == [ok |-> TRUE, err |-> "", val |-> v]
Err(m) == [ok |-> FALSE, err |-> m, val |-> Unit]
Pending == [ok |-> FALSE, err |-> "pending", val |-> Unit]
\* a panic unwinding through the call: no Result is returned
Panic == [ok |-> FALSE, err |-> "panic", val |-> Unit]
Panicked(r) == ~r.ok /\ r.err = "panic"
\* Option::ok_or_else on the None of decode_raw_pg
ok_or_else(value, msg) == IF Panicked(value) THEN value ELSE Err(msg)

\* Result::map
MapOk(r, F(_)) == IF r.ok THEN Ok(F(r.val)) ELSE r

Range(s) == {s[i] : i \in DOMAIN s}
IndexOf(s, x) == CHOOSE i \in DOMAIN s : s[i] = x

RECURSIVE Dedup(_)
Dedup(ks) ==
    IF ks = <<>> THEN <<>>
    ELSE LET d == Dedup(SubSeq(ks, 1, Len(ks) - 1))
         IN  IF ks[Len(ks)] \in Range(d) THEN d ELSE Append(d, ks[Len(ks)])
LastIdx(ks, k) == CHOOSE i \in DOMAIN ks : ks[i] = k /\ \A j \in (i + 1)..Len(ks) : ks[j] # k

\* HashMap::insert per entry: the last value of a key wins
HashMapOf(ks, vs) ==
    LET d == Dedup(ks)
    IN  MapV(d, [i \in DOMAIN d |-> vs[LastIdx(ks, d[i])]])

\* ------------------------------------------------------------------------
\* Target shapes: which serde Deserialize impl the caller asked for
\* ------------------------------------------------------------------------
Sh(k, fs) == [k |-> k, fs |-> fs]
Fld(n, s) == [n |-> n, s |-> s]

TBool == Sh("bool", <<>>)
TI16 == Sh("i16", <<>>)
TI32 == Sh("i32", <<>>)
TI64 == Sh("i64", <<>>)
TString == Sh("string", <<>>)
TF64 == Sh("f64", <<>>)
TUnit == Sh("unit", <<>>)
TJson == Sh("json", <<>>)
TIgnored == Sh("ignored", <<>>)
TOption(s) == Sh("option", <<Fld("", s)>>)
TNewtype(s) == Sh("newtype", <<Fld("", s)>>)
TVec(s) == Sh("vec", <<Fld("", s)>>)
TMap(s) == Sh("map", <<Fld("", s)>>)
TTuple(ss) == Sh("tuple", [i \in DOMAIN ss |-> Fld("", ss[i])])
TStruct(fs) == Sh("struct", fs)
\* a struct with #[serde(flatten)] fields; such a field has the shape
\* TFlatten(its type)
TFlatStruct(fs) == Sh("flatstruct", fs)
TFlatten(s) == Sh("flatten", <<Fld("", s)>>)
\* serde's buffered Content, the seed of a key that is no named field
TContent == Sh("content", <<>>)

Inner(s) == s.fs[1].s
FieldNames(s) == [i \in DOMAIN s.fs |-> s.fs[i].n]
\* the names of the fields of s that are not flattened
NamedFields(s) == {s.fs[i].n : i \in {j \in DOMAIN s.fs : s.fs[j].s.k # "flatten"}}
IntKinds == {"i16", "i32", "i64"}
ScalarKinds == {"bool", "string"} \cup IntKinds

\* ------------------------------------------------------------------------
\* serde visitors: what the Deserialize impl of a shape does with the value
\* a Deserializer hands it (serde's impls for primitives, Option, Vec,
\* tuples, HashMap, serde_json::Value and #[derive(Deserialize)] structs, as
\* used by the tests of the repository)
\* ------------------------------------------------------------------------
Ev(e, v) == [e |-> e, v |-> v]
\* Content: the visit call buffered with its argument
Content(e, v) == N("content", 0, <<e>>, <<v>>)
IntEvents == {"i16", "i32", "i64", "u64"}
FloatEvents == {"f32", "f64"}

\* does integer v fit the integer target kind k
Fits(k, v) ==
    CASE v.t = "int64" -> k = "i64"
      [] k = "i16" -> v.n >= I16Min /\ v.n <= I16Max
      [] OTHER -> TRUE

\* the visitor of shape s receives visit_unit / visit_none / visit_bool /
\* visit_i16..visit_u64 / visit_string
VisitPrim(s, ev) ==
    CASE s.k = "bool" ->
            IF ev.e = "bool" THEN Ok(ev.v) ELSE Err("invalid type")
      [] s.k \in IntKinds ->
            IF ev.e \in IntEvents /\ Fits(s.k, ev.v)
            THEN Ok(ev.v) ELSE Err("invalid type")
      [] s.k = "f64" ->
            IF ev.e \in IntEvents \cup FloatEvents
            THEN Ok(AsF64(ev.v)) ELSE Err("invalid type")
      [] s.k = "string" ->
            CASE ev.e = "string" -> Ok(ev.v)
              [] ev.e = "bytes" /\ ev.v.n > 0 -> Ok(StrV(ev.v.n))
              [] OTHER -> Err("invalid type")
      [] s.k = "unit" ->
            IF ev.e = "unit" THEN Ok(Unit) ELSE Err("invalid type")
      [] s.k = "option" ->
            IF ev.e \in {"none", "unit"} THEN Ok(None) ELSE Err("invalid type")
      [] s.k = "json" ->
            CASE ev.e = "bool" -> Ok(JBool(ev.v.n = 1))
              [] ev.e \in IntEvents ->
                    IF ev.v.t = "int64" THEN Ok(N("num64", ev.v.n, <<>>, <<>>))
                    ELSE Ok(JNum(ev.v.n))
              [] ev.e \in FloatEvents -> Ok(N("num", ev.v.n, <<"f64">>, <<>>))
              [] ev.e = "string" -> Ok(N("jstr", ev.v.n, ev.v.ks, ev.v.vs))
              [] ev.e \in {"none", "unit"} -> Ok(JNull)
              [] OTHER -> Err("invalid type")
      [] s.k = "ignored" -> Ok(Unit)
      [] s.k = "content" -> Ok(Content(ev.e, ev.v))
      [] OTHER -> Err("invalid type")

AllOk(rs) == \A i \in DOMAIN rs : rs[i].ok
FirstErr(rs) ==
    rs[CHOOSE i \in DOMAIN rs : ~rs[i].ok /\ \A j \in 1..(i - 1) : rs[j].ok]
Vals(rs) == [i \in DOMAIN rs |-> rs[i].val]
\* a container built from the element results, or the first error
Collect(rs, Build(_)) == IF AllOk(rs) THEN Ok(Build(Vals(rs))) ELSE FirstErr(rs)

\* the shape a struct visitor gives to the value of key `key`
\* (__ignore for a key that is no field)
FieldShape(s, key) ==
    IF key \in Range(FieldNames(s))
    THEN s.fs[IndexOf(FieldNames(s), key)].s
    ELSE TIgnored

\* serde's missing_field: an Option field becomes None, any other is an error
MissingField(fs) == IF fs.k = "option" THEN Ok(None) ELSE Err("missing field")

\* the struct is assembled from the (key, value) entries delivered to it;
\* the last entry of a key is the one looked up (duplicates are rejected
\* before this is called)
BuildStruct(s, ks, vs) ==
    LET field(i) ==
            IF s.fs[i].n \in Range(ks)
            THEN Ok(vs[IndexOf(ks, s.fs[i].n)])
            ELSE MissingField(s.fs[i].s)
        rs == [i \in DOMAIN s.fs |-> field(i)]
        rec(vals) == Rec(FieldNames(s), vals)
    IN Collect(rs, rec)

\* serde_json::Value as a Deserializer (hint-driven: deserialize_option,
\* deserialize_struct, ...), the serde_json Array and Object offered to a
\* visitor as a sequence / a map
RECURSIVE DocDeserialize(_, _)
RECURSIVE DocVisitSeq(_, _)
RECURSIVE DocVisitMap(_, _, _)

DocVisitSeq(vs, s) ==
    CASE s.k = "vec" ->
            Collect([i \in DOMAIN vs |-> DocDeserialize(vs[i], Inner(s))], SeqV)
      [] s.k \in {"tuple", "struct"} ->
            LET n == Len(s.fs)
                m == IF Len(vs) < n THEN Len(vs) ELSE n
                rs == [i \in 1..m |-> DocDeserialize(vs[i], s.fs[i].s)]
                rec(vals) == Rec(FieldNames(s), vals)
            IN  IF ~AllOk(rs) THEN FirstErr(rs)
                ELSE IF Len(vs) # n THEN Err("invalid length")
                ELSE IF s.k = "tuple" THEN Ok(SeqV(Vals(rs))) ELSE Ok(rec(Vals(rs)))
      [] s.k = "newtype" ->
            IF Len(vs) = 0 THEN Err("invalid length")
            ELSE LET r == DocDeserialize(vs[1], Inner(s))
                 IN  IF ~r.ok THEN r
                     ELSE IF Len(vs) # 1 THEN Err("invalid length")
                     ELSE Ok(Newtype(r.val))
      [] s.k = "json" -> Ok(JArr(vs))
      [] s.k = "ignored" -> Ok(Unit)
      [] s.k = "content" -> Ok(Content("doc", JArr(vs)))
      [] OTHER -> Err("invalid type")

DocVisitMap(ks, vs, s) ==
    CASE s.k = "struct" ->
            LET rs == [i \in DOMAIN vs |-> DocDeserialize(vs[i], FieldShape(s, ks[i]))]
            IN  IF AllOk(rs) THEN BuildStruct(s, ks, Vals(rs)) ELSE FirstErr(rs)
      [] s.k = "map" ->
            LET rs == [i \in DOMAIN vs |-> DocDeserialize(vs[i], Inner(s))]
                map(vals) == MapV(ks, vals)
            IN  Collect(rs, map)
      [] s.k = "json" -> Ok(JObj(ks, vs))
      [] s.k = "ignored" -> Ok(Unit)
      [] s.k = "content" -> Ok(Content("doc", JObj(ks, vs)))
      [] OTHER -> Err("invalid type")

\* Value::deserialize_any: the visitor is offered what the document is
DocAny(doc, s) ==
    CASE doc.t = "null" -> VisitPrim(s, Ev("unit", Unit))
      [] doc.t = "jbool" -> VisitPrim(s, Ev("bool", BoolV(doc.n = 1)))
      [] doc.t = "num" -> VisitPrim(s, Ev("u64", IntV(doc.n)))
      [] doc.t = "jstr" -> VisitPrim(s, Ev("string", StrV(doc.n)))
      [] doc.t = "arr" -> DocVisitSeq(doc.vs, s)
      [] OTHER -> DocVisitMap(doc.ks, doc.vs, s)

DocDeserialize(doc, s) ==
    CASE s.k = "option" ->
            IF doc.t = "null" THEN Ok(None)
            ELSE MapOk(DocDeserialize(doc, Inner(s)), Some)
      [] s.k = "newtype" -> MapOk(DocDeserialize(doc, Inner(s)), Newtype)
      [] s.k = "ignored" -> Ok(Unit)
      [] OTHER -> DocAny(doc, s)

\* T::deserialize(ContentDeserializer): a buffered value replayed into the
\* visitor of shape s
RECURSIVE ContentDeserialize(_, _)
ContentDeserialize(c, s) ==
    CASE s.k = "option" ->
            IF c.ks[1] \in {"none", "unit"} THEN Ok(None)
            ELSE MapOk(ContentDeserialize(c, Inner(s)), Some)
      [] s.k = "newtype" -> MapOk(ContentDeserialize(c, Inner(s)), Newtype)
      [] s.k = "ignored" -> Ok(Unit)
      [] c.ks[1] = "doc" -> DocDeserialize(c.vs[1], s)
      [] OTHER -> VisitPrim(s, Ev(c.ks[1], c.vs[1]))

KeyedEntry(k, v) == [k |-> k, v |-> v]
EntryKeys(es) == [i \in DOMAIN es |-> es[i].k]
NoDuplicate(ks) == \A i, j \in DOMAIN ks : ks[i] = ks[j] => i = j

\* the visitor of a derived struct with flattened fields: the entries
\* (ks, vs) of a map access, the value of a named field already decoded, any
\* other value buffered as Content.  Named fields are looked up first; the
\* buffered entries are then offered to the flattened fields in declaration
\* order through serde's FlatMapDeserializer: a flattened struct takes the
\* entries of its field names, a flattened map or a flattened struct with
\* flattened fields of its own is shown every entry still there
RECURSIVE FlatBuild(_, _, _)
RECURSIVE FlatMapDeserialize(_, _)
RECURSIVE FlatFields(_, _, _, _)

FlatMapDeserialize(es, t) ==
    CASE t.k = "struct" ->
            LET mine(e) == e.k \in Range(FieldNames(t))
                taken == SelectSeq(es, mine)
                rs == [j \in DOMAIN taken |->
                         ContentDeserialize(taken[j].v, FieldShape(t, taken[j].k))]
            IN  IF ~NoDuplicate(EntryKeys(taken)) THEN Err("duplicate field")
                ELSE IF ~AllOk(rs) THEN FirstErr(rs)
                ELSE BuildStruct(t, EntryKeys(taken), Vals(rs))
      [] t.k = "map" ->
            LET rs == [j \in DOMAIN es |-> ContentDeserialize(es[j].v, Inner(t))]
            IN  IF AllOk(rs) THEN Ok(HashMapOf(EntryKeys(es), Vals(rs)))
                ELSE FirstErr(rs)
      [] t.k = "flatstruct" ->
            LET seed(e) == IF e.k \in NamedFields(t)
                           THEN t.fs[IndexOf(FieldNames(t), e.k)].s ELSE TContent
                mine(e) == e.k \in NamedFields(t)
                rs == [j \in DOMAIN es |-> ContentDeserialize(es[j].v, seed(es[j]))]
            IN  IF ~NoDuplicate(EntryKeys(SelectSeq(es, mine))) THEN Err("duplicate field")
                ELSE IF ~AllOk(rs) THEN FirstErr(rs)
                ELSE FlatBuild(t, EntryKeys(es), Vals(rs))
      [] OTHER -> Err("invalid type")

\* the flattened fields i.. of s; acc holds the values of the fields settled
\* so far, es the buffered entries not yet taken
FlatFields(s, i, es, acc) ==
    IF i > Len(s.fs) THEN Ok(Rec(FieldNames(s), acc))
    ELSE IF s.fs[i].s.k # "flatten"
    THEN FlatFields(s, i + 1, es, acc)
    ELSE LET t == Inner(s.fs[i].s)
             r == FlatMapDeserialize(es, t)
             left(e) == e.k \notin Range(FieldNames(t))
         IN  IF ~r.ok THEN r
             ELSE FlatFields(s, i + 1,
                             IF t.k = "struct" THEN SelectSeq(es, left) ELSE es,
                             [acc EXCEPT ![i] = r.val])

FlatBuild_named_also_buffered(s, ks, vs) ==
    LET direct(i) ==
            IF s.fs[i].s.k = "flatten" THEN Ok(Unit)
            ELSE IF s.fs[i].n \in Range(ks)
            THEN Ok(vs[IndexOf(ks, s.fs[i].n)])
            ELSE MissingField(s.fs[i].s)
        rs == [i \in DOMAIN s.fs |-> direct(i)]
        buffered(i) == IF ks[i] \in NamedFields(s) THEN Content("i32", vs[i]) ELSE vs[i]
        es == [i \in DOMAIN ks |-> KeyedEntry(ks[i], buffered(i))]
    IN  IF AllOk(rs) THEN FlatFields(s, 1, es, Vals(rs)) ELSE FirstErr(rs)

FlatBuild(s, ks, vs) ==
    LET direct(i) ==
            IF s.fs[i].s.k = "flatten" THEN Ok(Unit)
            ELSE IF s.fs[i].n \in Range(ks)
            THEN Ok(vs[IndexOf(ks, s.fs[i].n)])
            ELSE MissingField(s.fs[i].s)
        rs == [i \in DOMAIN s.fs |-> direct(i)]
        other(e) == e.k \notin NamedFields(s)
        es == SelectSeq([i \in DOMAIN ks |-> KeyedEntry(ks[i], vs[i])], other)
    IN  IF AllOk(rs) THEN FlatFields(s, 1, es, Vals(rs)) ELSE FirstErr(rs)

\* ------------------------------------------------------------------------
\* Columns of a PgRow.  A column is
\*   [name, tag, null, v, arr, bytes, dec]
\* tag   the type tag (type_info().name())
\* null  the value is SQL NULL
\* v     the value sqlx decodes for a scalar tag
\* arr   the elements of an array-tagged column, each [null, v, bytes]
\* bytes the payload of a JSON / JSONB value (as_bytes())
\* dec   whether sqlx's String decode accepts the raw bytes of a column
\*       whose tag has no arm of its own (VARCHAR, an array read as text)
\* ------------------------------------------------------------------------
Col(name, tag, null, v, arr, bytes, dec) ==
    [name |-> name, tag |-> tag, null |-> null, v |-> v, arr |-> arr,
     bytes |-> bytes, dec |-> dec]
Elem(null, v, bytes) == [null |-> null, v |-> v, bytes |-> bytes]

\* the tags of the model's universe that end with "[]"
ArraySuffixed ==
    {"TEXT[]", "VARCHAR[]", "INT4[]", "BOOL[]", "JSON[]", "JSONB[]", "INT8[]"}
ends_with_brackets(type_name) == type_name \in ArraySuffixed

\* JSON texts.  A text is abstracted to one byte, its code: code c >= 2
\* stands for the text of DocTexts[c - 1]; byte 1 is no JSON text.
ObjOne == JObj(<<"one">>, <<JNum(1)>>)
DocTexts ==
    << JNum(1),
       JNull,
       JArr(<<JNum(1)>>),
       JObj(<<"f">>, <<JNum(1)>>),
       ObjOne,
       JObj(<<"f">>, <<ObjOne>>),
       JObj(<<"f", "g">>, <<JNum(1), JNum(2)>>),
       JObj(<<"f", "one">>, <<ObjOne, JNum(1)>>),
       JObj(<<"one", "three", "two">>, <<JNum(1), JNum(3), JNum(2)>>),
       JBool(TRUE),
       JStr(1) >>
DocCodes == {i + 1 : i \in DOMAIN DocTexts}
CodeOf(doc) == 1 + CHOOSE i \in DOMAIN DocTexts : DocTexts[i] = doc

\* serde_json::from_slice
from_slice(bytes) ==
    IF Len(bytes) = 1 /\ bytes[1] \in DocCodes
    THEN Ok(DocTexts[bytes[1] - 1])
    ELSE Err("json syntax error")

\* the JSONB version byte
JsonbVersion == 1

\* <PgJson as sqlx::Decode>::decode
PgJson_decode_skip0(tag, null, bytes) ==
    IF tag \notin {"JSON", "JSONB"} THEN Panic
    ELSE IF null THEN Err("unexpected null")
    ELSE IF tag = "JSONB" /\ (bytes = <<>> \/ bytes[1] # JsonbVersion)
         THEN Err("invalid JSONB header")
    ELSE from_slice(bytes)

PgJson_decode_unchecked(tag, null, bytes) ==
    IF tag \notin {"JSON", "JSONB"} THEN Panic
    ELSE IF null THEN Err("unexpected null")
    ELSE IF tag = "JSONB" /\ bytes # <<>>
         THEN from_slice(Tail(bytes))
         ELSE from_slice(bytes)

PgJson_decode(tag, null, bytes) ==
    IF tag \notin {"JSON", "JSONB"} THEN Panic
    ELSE IF null THEN Err("unexpected null")
    ELSE IF tag = "JSONB"
         THEN IF bytes = <<>> \/ bytes[1] # JsonbVersion
              THEN Err("invalid JSONB header")
              ELSE from_slice(Tail(bytes))
         ELSE from_slice(bytes)

\* decode_raw_pg::<T>: Some(v) or, after logging the driver's error, None
\* (the error itself is dropped; ok = FALSE stands for None)
decode_raw_pg(T, col) ==
    CASE T = "PgJson" ->
            LET r == PgJson_decode(col.tag, col.null, col.bytes)
            IN  IF r.ok \/ Panicked(r) THEN r ELSE Err("None")
      [] T = "String" ->
            IF col.null \/ ~col.dec THEN Err("None") ELSE Ok(StrV(col.v.n))
      [] OTHER ->
            IF col.null \/ ~col.dec THEN Err("None") ELSE Ok(col.v)

\* decode_raw_pg::<Vec<Option<T>>>: sqlx decodes every element with T's
\* Decode; one failing element fails the array
DecodeElem(T, etag, e) ==
    IF e.null THEN Ok(None)
    ELSE IF T = "PgJson" THEN MapOk(PgJson_decode(etag, FALSE, e.bytes), Some)
    ELSE Ok(Some(e.v))

\* the elements carrying the tag of the array itself
ElemTag_of_array(tag) == tag

\* the type tag of the elements sqlx hands to T::decode
ElemTag(tag) ==
    CASE tag = "JSON[]" -> "JSON"
      [] tag = "JSONB[]" -> "JSONB"
      [] OTHER -> "other"

\* PgArraySeqAccess::<T>::new
PgArraySeqAccess_new(T, col) ==
    LET rs == [i \in DOMAIN col.arr |-> DecodeElem(T, ElemTag(col.tag), col.arr[i])]
    IN  IF \E i \in DOMAIN rs : Panicked(rs[i]) THEN Panic
        ELSE IF col.null \/ ~AllOk(rs)
        THEN Err("Failed to decode PostgreSQL array")
        ELSE Ok(SeqV(Vals(rs)))

\* PgJsonDeserializer::deserialize_any (every other method forwards to it)
PgJsonDeserializer_deserialize_any(doc, s) == DocAny(doc, s)

\* the event a primitive's IntoDeserializer (BoolDeserializer, I32Deserializer,
\* StringDeserializer) hands the visitor
PrimEvent(v) ==
    CASE v.t = "bool" -> Ev("bool", v)
      [] v.t = "int" -> Ev("i32", v)
      [] OTHER -> Ev("string", v)

\* v.into_deserializer().deserialize_any(visitor) for an array element / the
\* deserializer behind visit_some
IntoDeserializer_any(v, s) ==
    IF v.t \in {"bool", "int", "str"}
    THEN VisitPrim(s, PrimEvent(v))
    ELSE PgJsonDeserializer_deserialize_any(v, s)

\* T::deserialize on such a deserializer: Option<T> calls deserialize_option,
\* a newtype calls deserialize_newtype_struct; both are forwarded to
\* deserialize_any, as is every other method
IntoDeserializer_deserialize(v, s) == IntoDeserializer_any(v, s)

\* PgArrayElementDeserializer::deserialize_any
PgArrayElementDeserializer_deserialize_any_lenient(e, s) ==
    IF e.t = "some"
    THEN IntoDeserializer_any(e.vs[1], s)
    ELSE VisitPrim(s, Ev("none", Unit))

PgArrayElementDeserializer_deserialize_any(e, s) ==
    IF e.t = "some"
    THEN IntoDeserializer_any(e.vs[1], s)
    ELSE Err("unexpected null in non-optional array element")

\* PgArrayElementDeserializer::deserialize_option
PgArrayElementDeserializer_deserialize_option_forwarded(e, s) ==
    PgArrayElementDeserializer_deserialize_any(e, s)

PgArrayElementDeserializer_deserialize_option(e, s) ==
    IF e.t = "some"
    THEN MapOk(IntoDeserializer_deserialize(e.vs[1], Inner(s)), Some)
    ELSE Ok(None)

\* U::deserialize(PgArrayElementDeserializer { value })
PgArrayElementDeserializer_deserialize(e, s) ==
    IF s.k = "option"
    THEN PgArrayElementDeserializer_deserialize_option(e, s)
    ELSE PgArrayElementDeserializer_deserialize_any(e, s)

\* ------------------------------------------------------------------------
\* PgValueDeserializer: one column value against the shape asked of it
\* ------------------------------------------------------------------------
\* DeError::custom("Failed to decode <words>"): the error an arm makes of the
\* None of decode_raw_pg, words being the words of its message
DecodeFailure(words) ==
    [ok |-> FALSE, err |-> "Failed to decode", val |-> N("msg", 0, words, <<>>)]
\* the words after "Failed to decode" in the message of the arm matching tag
ArmLabel(tag) ==
    CASE tag \in {"FLOAT8", "NUMERIC"} -> <<"FLOAT8", "NUMERIC">>
      [] tag \in {"TIME", "TIMETZ"} -> <<"TIME", "TIMETZ">>
      [] tag \in {"TIMESTAMP", "TIMESTAMPTZ"} -> <<"TIMESTAMP", "TIMESTAMPTZ">>
      [] tag \in {"CHAR", "TEXT"} -> <<"TEXT", "CHAR">>
      [] tag \in {"FLOAT4", "INT8", "INT4", "INT2", "BOOL", "DATE", "UUID",
                  "BYTEA", "INTERVAL"} -> <<tag>>
      [] OTHER -> <<"type", tag>>

\* a scalar arm of PgValueDeserializer::deserialize_any: decode as T, hand
\* the visitor the event ev
ScalarArm_widest(T, ev, col, s) ==
    LET v == decode_raw_pg(T, col)
    IN  IF v.ok
        THEN VisitPrim(s, Ev(IF ev \in {"i16", "i32"} THEN "i64" ELSE ev, v.val))
        ELSE DecodeFailure(ArmLabel(col.tag))

ScalarArm(T, ev, col, s) ==
    LET v == decode_raw_pg(T, col)
    IN  IF v.ok THEN VisitPrim(s, Ev(ev, v.val)) ELSE DecodeFailure(ArmLabel(col.tag))

\* Rust's integer division and remainder (both truncate toward zero)
RustDiv(a, b) == IF a >= 0 THEN a \div b ELSE -((-a) \div b)
RustRem(a, b) == a - b * RustDiv(a, b)

\* PgInterval { months, days, microseconds }
PgInterval(months, days, microseconds) ==
    N("interval", microseconds, <<>>, <<IntV(months), IntV(days)>>)
\* chrono::Duration of whole seconds and 0 <= nanos < 10^9
Duration(secs, nanos) == N("duration", secs, <<>>, <<IntV(nanos)>>)
\* the INTERVAL arm with the months counted as 30 days each
IntervalDuration_months_as_days(pg_interval) ==
    LET secs == RustDiv(pg_interval.n, 1000000)
        nanos == RustRem(pg_interval.n, 1000000) * 1000
        days == pg_interval.vs[2].n + 30 * pg_interval.vs[1].n
        total == secs + days * 86400
    IN  IF nanos < 0 THEN Duration(total - 1, nanos + 1000000000)
        ELSE Duration(total, nanos)

\* the INTERVAL arm: Duration::seconds(secs) + Duration::nanoseconds(nanos)
\* + Duration::days(days)
IntervalDuration(pg_interval) ==
    LET secs == RustDiv(pg_interval.n, 1000000)
        nanos == RustRem(pg_interval.n, 1000000) * 1000
        days == pg_interval.vs[2].n
        total == secs + days * 86400
    IN  IF nanos < 0 THEN Duration(total - 1, nanos + 1000000000)
        ELSE Duration(total, nanos)

\* an arm that hands the visitor a String made of the decoded value
StringArm(T, fmt, col, s) ==
    LET v == decode_raw_pg(T, col)
    IN  IF ~v.ok THEN DecodeFailure(ArmLabel(col.tag))
        ELSE IF T = "PgInterval"
        THEN VisitPrim(s, Ev("string", Text(fmt, IntervalDuration(v.val))))
        ELSE VisitPrim(s, Ev("string", Text(fmt, v.val)))

\* the last arm: any other tag is decoded as a String
FallbackArm_default(col, s) ==
    LET as_string == decode_raw_pg("String", col)
    IN  IF as_string.ok THEN VisitPrim(s, Ev("string", as_string.val))
        ELSE VisitPrim(s, Ev("string", StrV(0)))

FallbackArm(col, s) ==
    LET as_string == decode_raw_pg("String", col)
    IN  IF as_string.ok THEN VisitPrim(s, Ev("string", as_string.val))
        ELSE DecodeFailure(ArmLabel(col.tag))

\* the arm of the match on type_info.name() in
\* PgValueDeserializer::deserialize_any that a tag selects: the T it decodes
\* as and what it hands the visitor
Arm(does, T, with) == [does |-> does, T |-> T, with |-> with]
MatchArm(tag) ==
    CASE tag = "FLOAT4" -> Arm("visit", "f32", "f32")
      [] tag \in {"FLOAT8", "NUMERIC"} -> Arm("visit", "f64", "f64")
      [] tag = "INT8" -> Arm("visit", "i64", "i64")
      [] tag = "INT4" -> Arm("visit", "i32", "i32")
      [] tag = "INT2" -> Arm("visit", "i16", "i16")
      [] tag = "BOOL" -> Arm("visit", "bool", "bool")
      [] tag = "DATE" -> Arm("visit_string", "NaiveDate", "to_string")
      [] tag \in {"TIME", "TIMETZ"} -> Arm("visit_string", "NaiveTime", "to_string")
      [] tag \in {"TIMESTAMP", "TIMESTAMPTZ"} ->
            Arm("visit_string", "DateTime", "to_rfc3339")
      [] tag = "UUID" -> Arm("visit_string", "Uuid", "to_string")
      [] tag = "BYTEA" -> Arm("visit", "bytes", "bytes")
      [] tag = "INTERVAL" -> Arm("visit_string", "PgInterval", "to_string")
      [] tag \in {"CHAR", "TEXT"} -> Arm("visit", "String", "string")
      [] tag \in {"JSON", "JSONB"} -> Arm("json", "PgJson", "deserialize_any")
      [] OTHER -> Arm("fallback", "String", "string")

\* PgValueDeserializer::deserialize_any
PgValueDeserializer_deserialize_any_nullskip(col, s) ==
    CASE col.tag = "INT4" -> VisitPrim(s, Ev("i32", col.v))
      [] col.tag = "BOOL" -> VisitPrim(s, Ev("bool", col.v))
      [] OTHER -> VisitPrim(s, Ev("string", StrV(col.v.n)))

PgValueDeserializer_deserialize_any(col, s) ==
    IF col.null THEN VisitPrim(s, Ev("none", Unit))
    ELSE LET arm == MatchArm(col.tag)
         IN  CASE arm.does = "visit" -> ScalarArm(arm.T, arm.with, col, s)
               [] arm.does = "visit_string" -> StringArm(arm.T, arm.with, col, s)
               [] arm.does = "json" ->
                    LET value == decode_raw_pg(arm.T, col)
                    IN  IF value.ok
                        THEN PgJsonDeserializer_deserialize_any(value.val, s)
                        ELSE ok_or_else(value, "Failed to decode JSON/JSONB")
               [] OTHER -> FallbackArm(col, s)

\* T::deserialize(PgValueDeserializer { value }): Option<T> calls
\* deserialize_option, everything else is forwarded to deserialize_any
RECURSIVE PgValueDeserializer_deserialize(_, _)
PgValueDeserializer_deserialize(col, s) ==
    IF s.k = "option"
    THEN \* PgValueDeserializer::deserialize_option
         IF col.null THEN Ok(None)
         ELSE MapOk(PgValueDeserializer_deserialize(col, Inner(s)), Some)
    ELSE PgValueDeserializer_deserialize_any(col, s)

\* ------------------------------------------------------------------------
\* The rows and the target shapes a decode is started with
\* ------------------------------------------------------------------------
ColNames == {"f", "g"}

NoArr == <<>>
NoBytes == <<>>

ScalarCells ==
    { Col("", "BOOL", FALSE, BoolV(TRUE), NoArr, NoBytes, TRUE),
      Col("", "INT2", FALSE, IntV(7), NoArr, NoBytes, TRUE),
      Col("", "INT4", FALSE, IntV(42), NoArr, NoBytes, TRUE),
      Col("", "INT8", FALSE, IntV(2^20), NoArr, NoBytes, TRUE),
      Col("", "INT2", FALSE, IntV(I16Min), NoArr, NoBytes, TRUE),
      Col("", "INT2", FALSE, IntV(I16Max), NoArr, NoBytes, TRUE),
      Col("", "INT4", FALSE, IntV(I32Min), NoArr, NoBytes, TRUE),
      Col("", "INT4", FALSE, IntV(I32Max), NoArr, NoBytes, TRUE),
      Col("", "INT8", FALSE, I64Min, NoArr, NoBytes, TRUE),
      Col("", "INT8", FALSE, I64Max, NoArr, NoBytes, TRUE),
      Col("", "TEXT", FALSE, StrV(1), NoArr, NoBytes, TRUE),
      Col("", "VARCHAR", FALSE, StrV(1), NoArr, NoBytes, TRUE),
      Col("", "VARCHAR", FALSE, StrV(1), NoArr, NoBytes, FALSE) }

\* one column value per remaining scalar tag, and a tag with no arm (INET)
MoreScalarCells ==
    { Col("", "FLOAT4", FALSE, F32(42), NoArr, NoBytes, TRUE),
      Col("", "FLOAT8", FALSE, F64(42), NoArr, NoBytes, TRUE),
      Col("", "NUMERIC", FALSE, F64(42), NoArr, NoBytes, TRUE),
      Col("", "NUMERIC", FALSE, F64(42), NoArr, NoBytes, FALSE),
      Col("", "DATE", FALSE, N("date", 1, <<>>, <<>>), NoArr, NoBytes, TRUE),
      Col("", "TIME", FALSE, N("time", 1, <<>>, <<>>), NoArr, NoBytes, TRUE),
      Col("", "TIMETZ", FALSE, N("time", 1, <<>>, <<>>), NoArr, NoBytes, TRUE),
      Col("", "TIMESTAMP", FALSE, N("datetime", 1, <<>>, <<>>), NoArr, NoBytes, TRUE),
      Col("", "TIMESTAMPTZ", FALSE, N("datetime", 1, <<>>, <<>>), NoArr, NoBytes, TRUE),
      Col("", "UUID", FALSE, N("uuid", 1, <<>>, <<>>), NoArr, NoBytes, TRUE),
      Col("", "BYTEA", FALSE, BytesV(1), NoArr, NoBytes, TRUE),
      Col("", "BYTEA", FALSE, BytesV(0), NoArr, NoBytes, TRUE),
      Col("", "INTERVAL", FALSE, PgInterval(1, 2, 3000001), NoArr, NoBytes, TRUE),
      Col("", "INTERVAL", FALSE, PgInterval(0, 0, -1500000), NoArr, NoBytes, TRUE),
      Col("", "INTERVAL", FALSE, PgInterval(7, 2, 3000001), NoArr, NoBytes, TRUE),
      Col("", "INTERVAL", FALSE, PgInterval(3, -1, -1), NoArr, NoBytes, TRUE),
      Col("", "INTERVAL", FALSE, PgInterval(0, 1, 0), NoArr, NoBytes, FALSE),
      Col("", "CHAR", FALSE, StrV(1), NoArr, NoBytes, TRUE),
      Col("", "INET", FALSE, StrV(1), NoArr, NoBytes, TRUE),
      Col("", "INET", FALSE, StrV(1), NoArr, NoBytes, FALSE) }

NullCells ==
    { Col("", tag, TRUE, Unit, NoArr, NoBytes, TRUE) :
        tag \in {"BOOL", "INT4", "TEXT", "JSON", "TEXT[]"} }

DocCells ==
    { Col("", "JSON", FALSE, Unit, NoArr, <<c>>, TRUE) : c \in DocCodes }
    \cup { Col("", "JSONB", FALSE, Unit, NoArr, <<JsonbVersion, c>>, TRUE) : c \in DocCodes }
    \cup { Col("", "JSON", FALSE, Unit, NoArr, bs, TRUE) :
             bs \in {<<>>, <<JsonbVersion>>, <<JsonbVersion, CodeOf(ObjOne)>>} }
    \cup { Col("", "JSONB", FALSE, Unit, NoArr, <<JsonbVersion, JsonbVersion, CodeOf(ObjOne)>>, TRUE) }
    \cup { Col("", "JSONB", FALSE, Unit, NoArr, bs, TRUE) :
             bs \in {<<>>, <<JsonbVersion>>, <<CodeOf(ObjOne)>>, <<JsonbVersion + 1, CodeOf(ObjOne)>>} }

\* the elements an array of each tag is filled with
ElemsOf(tag) ==
    {Elem(TRUE, Unit, NoBytes)} \cup
    CASE tag \in {"TEXT[]", "VARCHAR[]"} -> {Elem(FALSE, StrV(1), NoBytes)}
      [] tag = "INT4[]" -> {Elem(FALSE, IntV(42), NoBytes)}
      [] tag = "INT8[]" -> {Elem(FALSE, IntV(2^20), NoBytes)}
      [] tag = "BOOL[]" -> {Elem(FALSE, BoolV(TRUE), NoBytes)}
      [] tag = "JSON[]" -> {Elem(FALSE, Unit, <<CodeOf(JNum(1))>>),
                            Elem(FALSE, Unit, <<CodeOf(JNull)>>)}
      [] OTHER -> {Elem(FALSE, Unit, <<JsonbVersion, CodeOf(JNum(1))>>)}

SeqsUpTo(S, n) == UNION {[1..k -> S] : k \in 0..n}

ArrayCells ==
    UNION { { Col("", tag, FALSE, Unit, arr, NoBytes, dec) :
                arr \in SeqsUpTo(ElemsOf(tag), MaxArrLen), dec \in BOOLEAN } :
            tag \in ArraySuffixed }
    \cup { Col("", "JSONB[]", FALSE, Unit, <<Elem(FALSE, Unit, bs)>>, NoBytes, TRUE) :
             bs \in {<<>>, <<CodeOf(JNum(1))>>, <<JsonbVersion + 1, CodeOf(JNum(1))>>} }

FullCells == ScalarCells \cup MoreScalarCells \cup NullCells \cup DocCells \cup ArrayCells

\* the cells that rows of more than one column are built from
ViewCells ==
    { Col("", "BOOL", FALSE, BoolV(TRUE), NoArr, NoBytes, TRUE),
      Col("", "INT2", FALSE, IntV(7), NoArr, NoBytes, TRUE),
      Col("", "INT4", FALSE, IntV(42), NoArr, NoBytes, TRUE),
      Col("", "INT4", TRUE, Unit, NoArr, NoBytes, TRUE),
      Col("", "VARCHAR", FALSE, StrV(1), NoArr, NoBytes, FALSE),
      Col("", "JSON", FALSE, Unit, NoArr, <<CodeOf(ObjOne)>>, TRUE),
      Col("", "JSONB", FALSE, Unit, NoArr, <<JsonbVersion, CodeOf(JObj(<<"f", "g">>, <<JNum(1), JNum(2)>>))>>, TRUE),
      Col("", "JSONB", FALSE, Unit, NoArr, <<CodeOf(ObjOne)>>, TRUE),
      Col("", "INT4[]", FALSE, Unit, <<Elem(FALSE, IntV(42), NoBytes), Elem(FALSE, IntV(42), NoBytes)>>, NoBytes, TRUE),
      Col("", "TEXT[]", FALSE, Unit, <<Elem(FALSE, StrV(1), NoBytes)>>, NoBytes, FALSE) }

Named(cells) == { [c EXCEPT !.name = nm] : c \in cells, nm \in ColNames }

Rows ==
    {<<>>}
    \cup { <<c>> : c \in Named(FullCells) }
    \cup UNION { [1..n -> Named(ViewCells)] : n \in 2..MaxCols }

Inner3 == TStruct(<<Fld("one", TI32), Fld("two", TI32), Fld("three", TI32)>>)
InnerOne == TStruct(<<Fld("one", TI32)>>)
JsonRecord == TStruct(<<Fld("json_record", Inner3)>>)

\* the records with flattened fields of tests 07 and 11
FlatMapOnly == TFlatStruct(<<Fld("fields", TFlatten(TMap(TI32)))>>)
FlatOneAndRest == TFlatStruct(<<Fld("f", TI32), Fld("the_rest", TFlatten(TMap(TI32)))>>)
TwoStructFieldsStruct ==
    TFlatStruct(<<Fld("left", TFlatten(TStruct(<<Fld("f", TBool)>>))),
                  Fld("right", TFlatten(TStruct(<<Fld("g", TI32)>>)))>>)
DeepStruct ==
    TFlatStruct(<<Fld("b", TFlatten(TFlatStruct(<<Fld("a", TFlatten(TStruct(<<Fld("f", TBool)>>)))>>)))>>)

Shapes ==
    { TBool, TI16, TI32, TI64, TF64, TString, TJson, TUnit, TContent,
      TOption(TI32), TOption(TString), TOption(TTuple(<<TBool, TI32>>)),
      TOption(TStruct(<<Fld("f", TBool), Fld("g", TI32)>>)),
      TNewtype(TI32), TNewtype(TStruct(<<Fld("f", TI32)>>)),
      TVec(TI32), TVec(TI64), TVec(TString), TVec(TBool), TVec(TJson),
      TVec(TOption(TI32)), TVec(TOption(TString)), TVec(TOption(TBool)),
      TVec(TOption(TJson)),
      TTuple(<<TI32>>), TTuple(<<TBool, TI32>>), TTuple(<<TVec(TI32), TI32>>),
      TMap(TI32), TMap(TJson),
      TStruct(<<Fld("f", TI32)>>),
      TStruct(<<Fld("f", TBool), Fld("g", TI32)>>),
      TStruct(<<Fld("g", TI32), Fld("f", TBool)>>),
      TStruct(<<Fld("f", TOption(TI32)), Fld("g", TOption(TI32))>>),
      TStruct(<<Fld("f", TJson), Fld("g", TI32)>>),
      TStruct(<<Fld("f", TVec(TI32)), Fld("g", TVec(TString))>>),
      TStruct(<<Fld("f", InnerOne)>>),
      TStruct(<<Fld("one", TI32)>>),
      JsonRecord,
      FlatMapOnly, FlatOneAndRest, TwoStructFieldsStruct, DeepStruct }

\* ------------------------------------------------------------------------
\* State of one from_pg_row call
\* ------------------------------------------------------------------------
VARIABLES
    row,     \* the PgRow: a sequence of columns
    shape,   \* T of from_pg_row::<T>
    pc,      \* "entry": T::deserialize is about to call the PgRowDeserializer;
             \* "seq" / "array" / "map_key" / "map_value": a visitor is
             \* driving PgRowSeqAccess / PgArraySeqAccess / PgRowMapAccess;
             \* "done": from_pg_row has returned
    cur,     \* the shape being asked of the PgRowDeserializer
    wrap,    \* the Some(..) / newtype wrappers waiting for cur's value
    index,   \* PgRowDeserializer.index (0-based), as held by the view
    iter,    \* PgArraySeqAccess.iter: the elements not yet yielded
    out,     \* the entries [k, v] the visitor has been given so far
    key,     \* the key given by next_key_seed, awaiting its value
    ended,   \* the access has answered None (end of input)
    result,  \* what from_pg_row returns
    route,   \* which strategy the dispatch chose
    reads    \* the column indices passed to try_get_raw, in call order

vars == <<row, shape, pc, cur, wrap, index, iter, out, key, ended, result, route, reads>>

num_cols == Len(row)
\* row.try_get_raw(i) is Ok exactly for the indices of the row
HasCol(i) == i < Len(row)
ColAt(i) == row[i + 1]

Entry(k, v) == [k |-> k, v |-> v]
OutKeys == [i \in DOMAIN out |-> out[i].k]
OutVals == [i \in DOMAIN out |-> out[i].v]

RECURSIVE ApplyWraps(_, _)
ApplyWraps(w, r) ==
    IF w = <<>> THEN r
    ELSE ApplyWraps(SubSeq(w, 1, Len(w) - 1),
                    IF w[Len(w)] = "some" THEN MapOk(r, Some) ELSE MapOk(r, Newtype))

\* PgRowDeserializer::new(&row), then T::deserialize(deserializer)
Init ==
    /\ row \in Rows
    /\ shape \in Shapes
    /\ pc = "entry"
    /\ cur = shape
    /\ wrap = <<>>
    /\ index = 0
    /\ iter = <<>>
    /\ out = <<>>
    /\ key = ""
    /\ ended = FALSE
    /\ result = Pending
    /\ route = ""
    /\ reads = <<>>

\* from_pg_row returns r (inside the wrappers collected on the way)
Return(r, rt) ==
    /\ pc' = "done"
    /\ result' = ApplyWraps(wrap, r)
    /\ route' = rt

\* ---- the visitors that drive a SeqAccess / MapAccess --------------------
AcceptsSeq(s) == s.k \in {"vec", "tuple", "json", "ignored", "content"}
AcceptsMap(s) == s.k \in {"struct", "map", "flatstruct"}

\* does the visit_seq of shape s ask for one more element after n of them
WantsMore(s, n) == IF s.k = "tuple" THEN n < Len(s.fs) ELSE TRUE

\* the seed of the i-th element / of the value of key k
ElemShape(s, i) ==
    CASE s.k = "vec" -> Inner(s)
      [] s.k = "tuple" -> s.fs[i].s
      [] s.k = "json" -> TJson
      [] s.k = "content" -> TContent
      [] OTHER -> TIgnored
ValueShape(s, k) ==
    CASE s.k = "struct" -> FieldShape(s, k)
      [] s.k = "flatstruct" ->
            IF k \in NamedFields(s) THEN s.fs[IndexOf(FieldNames(s), k)].s ELSE TContent
      [] OTHER -> Inner(s)
\* the keys a derived visitor accepts once only
DeclaredKeys(s) ==
    CASE s.k = "struct" -> Range(FieldNames(s))
      [] s.k = "flatstruct" -> NamedFields(s)
      [] OTHER -> {}

\* the value visit_seq returns
SeqResult(s, vals) ==
    CASE s.k = "vec" -> Ok(SeqV(vals))
      [] s.k = "tuple" ->
            IF Len(vals) = Len(s.fs) THEN Ok(SeqV(vals)) ELSE Err("invalid length")
      [] s.k = "json" -> Ok(JArr(vals))
      [] s.k = "content" -> Ok(Content("seq", SeqV(vals)))
      [] OTHER -> Ok(Unit)

\* the value visit_map returns
MapResult(s, ks, vs) ==
    CASE s.k = "struct" -> BuildStruct(s, ks, vs)
      [] s.k = "flatstruct" -> FlatBuild(s, ks, vs)
      [] OTHER -> Ok(HashMapOf(ks, vs))

\* ---- PgRowDeserializer --------------------------------------------------
SupportedArrays == {"TEXT[]", "VARCHAR[]", "INT4[]", "JSON[]", "JSONB[]", "BOOL[]"}
ArrayElemType(tag) ==
    CASE tag \in {"TEXT[]", "VARCHAR[]"} -> "String"
      [] tag = "INT4[]" -> "i32"
      [] tag \in {"JSON[]", "JSONB[]"} -> "PgJson"
      [] OTHER -> "bool"

\* PgRowDeserializer::deserialize_map: visitor.visit_map(PgRowMapAccess)
deserialize_map_body ==
    IF AcceptsMap(cur)
    THEN /\ pc' = "map_key"
         /\ route' = "rowmap"
         /\ UNCHANGED <<result, cur, wrap, index, iter, out, key, ended>>
    ELSE /\ Return(Err("invalid type"), "rowmap")
         /\ UNCHANGED <<cur, wrap, index, iter, out, key, ended>>

\* PgRowDeserializer::deserialize_seq, rs the reads made before the call
deserialize_seq_body(rs) ==
    /\ reads' = Append(rs, index)
    /\ IF ~HasCol(index)
       THEN /\ Return(Err("access error"), "error")
            /\ UNCHANGED <<cur, wrap, index, iter, out, key, ended>>
       ELSE IF ColAt(index).tag \in SupportedArrays
       THEN LET a == PgArraySeqAccess_new(ArrayElemType(ColAt(index).tag), ColAt(index))
            IN  IF a.ok /\ AcceptsSeq(cur)
                THEN /\ pc' = "array"
                     /\ iter' = a.val.vs
                     /\ route' = "array"
                     /\ UNCHANGED <<result, cur, wrap, index, out, key, ended>>
                ELSE /\ Return(IF a.ok THEN Err("invalid type") ELSE a, "array_failed")
                     /\ UNCHANGED <<cur, wrap, index, iter, out, key, ended>>
       ELSE IF AcceptsSeq(cur)
            THEN /\ pc' = "seq"
                 /\ route' = "rowseq"
                 /\ UNCHANGED <<result, cur, wrap, index, iter, out, key, ended>>
            ELSE /\ Return(Err("invalid type"), "rowseq")
                 /\ UNCHANGED <<cur, wrap, index, iter, out, key, ended>>

\* deserialize_option deciding absence from all the columns
deserialize_option_all_columns ==
    /\ pc = "entry" /\ cur.k = "option"
    /\ reads' = Append(reads, 0)
    /\ IF ~HasCol(0)
       THEN /\ Return(Err("access error"), "error")
            /\ UNCHANGED <<cur, wrap>>
       ELSE IF \A i \in DOMAIN row : row[i].null
       THEN /\ Return(Ok(None), "none")
            /\ UNCHANGED <<cur, wrap>>
       ELSE /\ cur' = Inner(cur)
            /\ wrap' = Append(wrap, "some")
            /\ UNCHANGED <<pc, result, route>>
    /\ UNCHANGED <<row, shape, index, iter, out, key, ended>>

\* PgRowDeserializer::deserialize_option
deserialize_option ==
    /\ pc = "entry" /\ cur.k = "option"
    /\ reads' = Append(reads, 0)
    /\ IF ~HasCol(0)
       THEN /\ Return(Err("access error"), "error")
            /\ UNCHANGED <<cur, wrap>>
       ELSE IF ColAt(0).null
       THEN /\ Return(Ok(None), "none")
            /\ UNCHANGED <<cur, wrap>>
       ELSE /\ cur' = Inner(cur)
            /\ wrap' = Append(wrap, "some")
            /\ UNCHANGED <<pc, result, route>>
    /\ UNCHANGED <<row, shape, index, iter, out, key, ended>>

\* PgRowDeserializer::deserialize_newtype_struct
deserialize_newtype_struct_unwrapped ==
    /\ pc = "entry" /\ cur.k = "newtype"
    /\ cur' = Inner(cur)
    /\ UNCHANGED <<row, shape, pc, wrap, index, iter, out, key, ended, result, route, reads>>

deserialize_newtype_struct ==
    /\ pc = "entry" /\ cur.k = "newtype"
    /\ cur' = Inner(cur)
    /\ wrap' = Append(wrap, "newtype")
    /\ UNCHANGED <<row, shape, pc, index, iter, out, key, ended, result, route, reads>>

\* deserialize_any taking the column at the cursor whatever the column count
deserialize_any_first_column ==
    /\ pc = "entry"
    /\ cur.k \notin {"option", "newtype", "vec", "tuple", "struct", "map", "flatstruct"}
    /\ IF num_cols = 0
       THEN /\ Return(VisitPrim(cur, Ev("unit", Unit)), "unit")
            /\ UNCHANGED <<cur, wrap, index, iter, out, key, ended, reads>>
       ELSE IF ColAt(index).null
       THEN /\ Return(VisitPrim(cur, Ev("none", Unit)), "null")
            /\ reads' = Append(reads, index)
            /\ UNCHANGED <<cur, wrap, index, iter, out, key, ended>>
       ELSE IF ends_with_brackets(ColAt(index).tag)
       THEN deserialize_seq_body(Append(reads, index))
       ELSE /\ Return(PgValueDeserializer_deserialize_any(ColAt(index), cur),
                      IF ColAt(index).tag \in {"JSON", "JSONB"} THEN "document" ELSE "scalar")
            /\ reads' = Append(reads, index)
            /\ UNCHANGED <<cur, wrap, index, iter, out, key, ended>>
    /\ UNCHANGED <<row, shape>>

\* PgRowDeserializer::deserialize_any, reached through forward_to_deserialize_any
deserialize_any ==
    /\ pc = "entry"
    /\ cur.k \notin {"option", "newtype", "vec", "tuple", "struct", "map", "flatstruct"}
    /\ IF num_cols = 0
       THEN /\ Return(VisitPrim(cur, Ev("unit", Unit)), "unit")
            /\ UNCHANGED <<cur, wrap, index, iter, out, key, ended, reads>>
       ELSE IF num_cols > 1
       THEN deserialize_seq_body(reads)
       ELSE IF ColAt(index).null
       THEN /\ Return(VisitPrim(cur, Ev("none", Unit)), "null")
            /\ reads' = Append(reads, index)
            /\ UNCHANGED <<cur, wrap, index, iter, out, key, ended>>
       ELSE IF ends_with_brackets(ColAt(index).tag)
       THEN deserialize_seq_body(Append(reads, index))
       ELSE /\ Return(PgValueDeserializer_deserialize_any(ColAt(index), cur),
                      IF ColAt(index).tag \in {"JSON", "JSONB"} THEN "document" ELSE "scalar")
            /\ reads' = Append(reads, index)
            /\ UNCHANGED <<cur, wrap, index, iter, out, key, ended>>
    /\ UNCHANGED <<row, shape>>

\* PgRowDeserializer::deserialize_map
deserialize_map ==
    /\ pc = "entry" /\ cur.k \in {"map", "flatstruct"}
    /\ deserialize_map_body
    /\ UNCHANGED <<row, shape, reads>>

\* PgRowDeserializer::deserialize_seq
deserialize_seq ==
    /\ pc = "entry" /\ cur.k = "vec"
    /\ deserialize_seq_body(reads)
    /\ UNCHANGED <<row, shape>>

\* PgRowDeserializer::deserialize_tuple
deserialize_tuple ==
    /\ pc = "entry" /\ cur.k = "tuple"
    /\ deserialize_seq_body(reads)
    /\ UNCHANGED <<row, shape>>

\* the document reconciliation of deserialize_struct: which branch is taken
\* for the parsed document and the declared fields, and what is decoded
ReconcileBranch_never_wrap(doc, fields) ==
    IF doc.t # "obj" THEN "doc_nonobject"
    ELSE IF \A i \in DOMAIN fields : fields[i] \in Range(doc.ks)
         THEN (IF Len(fields) = 1 THEN "doc_direct" ELSE "doc_allkeys")
         ELSE (IF Len(fields) = 1 THEN "doc_direct" ELSE "doc_missing")

\* the test for an object that comes before any reconciliation
ReconcileBranch_wrap_nonobject(doc, fields) ==
    IF Len(fields) = 1
    THEN IF doc.t = "obj" /\ fields[1] \in Range(doc.ks) THEN "doc_direct" ELSE "doc_wrap"
    ELSE IF doc.t # "obj" THEN "doc_nonobject"
    ELSE IF \A i \in DOMAIN fields : fields[i] \in Range(doc.ks)
         THEN "doc_allkeys" ELSE "doc_missing"

\* the N > 1 test of deserialize_struct: fields.iter().all(contains_key)
ReconcileBranch_some_key(doc, fields) ==
    IF doc.t # "obj" THEN "doc_nonobject"
    ELSE IF Len(fields) = 1
         THEN IF fields[1] \in Range(doc.ks) THEN "doc_direct" ELSE "doc_wrap"
         ELSE IF \E i \in DOMAIN fields : fields[i] \in Range(doc.ks)
              THEN "doc_allkeys" ELSE "doc_missing"

ReconcileBranch(doc, fields) ==
    IF doc.t # "obj" THEN "doc_nonobject"
    ELSE IF Len(fields) = 1
         THEN IF fields[1] \in Range(doc.ks) THEN "doc_direct" ELSE "doc_wrap"
         ELSE IF \A i \in DOMAIN fields : fields[i] \in Range(doc.ks)
              THEN "doc_allkeys" ELSE "doc_missing"

\* DeError::custom(format!("JSON object missing expected keys: expected {:?},
\* found keys {:?}", fields, obj.keys())): the error carries both lists
MissingKeys(fields, keys) ==
    [ok |-> FALSE, err |-> "JSON object missing expected keys",
     val |-> N("keys", 0, fields, <<N("found", 0, keys, <<>>)>>)]

Reconcile_wrap_always(doc, s) ==
    IF doc.t = "obj" /\ Len(s.fs) = 1
    THEN PgJsonDeserializer_deserialize_any(JObj(<<s.fs[1].n>>, <<doc>>), s)
    ELSE PgJsonDeserializer_deserialize_any(doc, s)

Reconcile(doc, s) ==
    LET b == ReconcileBranch(doc, FieldNames(s))
    IN  CASE b = "doc_wrap" ->
                PgJsonDeserializer_deserialize_any(JObj(<<s.fs[1].n>>, <<doc>>), s)
          [] b = "doc_missing" -> MissingKeys(FieldNames(s), doc.ks)
          [] OTHER -> PgJsonDeserializer_deserialize_any(doc, s)

\* PgRowDeserializer::deserialize_struct
deserialize_struct ==
    /\ pc = "entry" /\ cur.k = "struct"
    /\ reads' = Append(reads, index)
    /\ IF ~HasCol(index)
       THEN /\ Return(Err("access error"), "error")
            /\ UNCHANGED <<cur, wrap, index, iter, out, key, ended>>
       ELSE IF ColAt(index).tag \in {"JSON", "JSONB"}
       THEN LET value == decode_raw_pg("PgJson", ColAt(index))
            IN  /\ IF value.ok
                   THEN Return(Reconcile(value.val, cur),
                               ReconcileBranch(value.val, FieldNames(cur)))
                   ELSE Return(ok_or_else(value, "Failed to decode JSON/JSONB"), "doc_error")
                /\ UNCHANGED <<cur, wrap, index, iter, out, key, ended>>
       ELSE deserialize_map_body
    /\ UNCHANGED <<row, shape>>

\* ---- PgRowSeqAccess -----------------------------------------------------
\* next_element_seed with the cursor advanced after the element's decode
next_element_seed_advance_on_success ==
    /\ pc = "seq" /\ ~ended /\ WantsMore(cur, Len(out))
    /\ IF index < num_cols
       THEN LET r == PgValueDeserializer_deserialize(
                        ColAt(index), ElemShape(cur, Len(out) + 1))
            IN  /\ reads' = Append(reads, index)
                /\ IF r.ok
                   THEN /\ out' = Append(out, Entry("", r.val))
                        /\ index' = index + 1
                        /\ UNCHANGED <<pc, result, route>>
                   ELSE /\ Return(r, route)
                        /\ UNCHANGED <<out, index>>
                /\ UNCHANGED ended
       ELSE /\ ended' = TRUE
            /\ UNCHANGED <<pc, result, route, index, out, reads>>
    /\ UNCHANGED <<row, shape, cur, wrap, iter, key>>

\* PgRowSeqAccess::next_element_seed, called by the visitor for its next
\* element
next_element_seed ==
    /\ pc = "seq" /\ ~ended /\ WantsMore(cur, Len(out))
    /\ IF index < num_cols
       THEN LET r == PgValueDeserializer_deserialize(
                        ColAt(index), ElemShape(cur, Len(out) + 1))
            IN  /\ reads' = Append(reads, index)
                /\ index' = index + 1
                /\ IF r.ok
                   THEN /\ out' = Append(out, Entry("", r.val))
                        /\ UNCHANGED <<pc, result, route>>
                   ELSE /\ Return(r, route)
                        /\ UNCHANGED out
                /\ UNCHANGED ended
       ELSE /\ ended' = TRUE
            /\ UNCHANGED <<pc, result, route, index, out, reads>>
    /\ UNCHANGED <<row, shape, cur, wrap, iter, key>>

\* ---- PgArraySeqAccess ---------------------------------------------------
\* PgArraySeqAccess::next_element_seed
PgArraySeqAccess_next_element_seed ==
    /\ pc = "array" /\ ~ended /\ WantsMore(cur, Len(out))
    /\ IF iter # <<>>
       THEN LET r == PgArrayElementDeserializer_deserialize(
                        Head(iter), ElemShape(cur, Len(out) + 1))
            IN  /\ iter' = Tail(iter)
                /\ IF r.ok
                   THEN /\ out' = Append(out, Entry("", r.val))
                        /\ UNCHANGED <<pc, result, route>>
                   ELSE /\ Return(r, route)
                        /\ UNCHANGED out
                /\ UNCHANGED ended
       ELSE /\ ended' = TRUE
            /\ UNCHANGED <<pc, result, route, iter, out>>
    /\ UNCHANGED <<row, shape, cur, wrap, index, key, reads>>

\* visit_seq returns: the visitor has all it asked for, or the access ended
visit_seq_return ==
    /\ pc \in {"seq", "array"}
    /\ ended \/ ~WantsMore(cur, Len(out))
    /\ Return(SeqResult(cur, OutVals), route)
    /\ UNCHANGED <<row, shape, cur, wrap, index, iter, out, key, ended, reads>>

\* ---- PgRowMapAccess -----------------------------------------------------
\* PgRowMapAccess::next_key_seed; a derived struct visitor rejects a key
\* that names a field it has already been given
next_key_seed_first_column ==
    /\ pc = "map_key" /\ ~ended
    /\ IF index < num_cols
       THEN LET col_name == ColAt(0).name
            IN  IF /\ col_name \in DeclaredKeys(cur)
                   /\ col_name \in Range(OutKeys)
                THEN /\ Return(Err("duplicate field"), route)
                     /\ UNCHANGED <<key, ended>>
                ELSE /\ key' = col_name
                     /\ pc' = "map_value"
                     /\ UNCHANGED <<result, route, ended>>
       ELSE /\ ended' = TRUE
            /\ UNCHANGED <<pc, result, route, key>>
    /\ UNCHANGED <<row, shape, cur, wrap, index, iter, out, reads>>

next_key_seed ==
    /\ pc = "map_key" /\ ~ended
    /\ IF index < num_cols
       THEN LET col_name == ColAt(index).name
            IN  IF /\ col_name \in DeclaredKeys(cur)
                   /\ col_name \in Range(OutKeys)
                THEN /\ Return(Err("duplicate field"), route)
                     /\ UNCHANGED <<key, ended>>
                ELSE /\ key' = col_name
                     /\ pc' = "map_value"
                     /\ UNCHANGED <<result, route, ended>>
       ELSE /\ ended' = TRUE
            /\ UNCHANGED <<pc, result, route, key>>
    /\ UNCHANGED <<row, shape, cur, wrap, index, iter, out, reads>>

\* next_value_seed that does not decode a value the target ignores
next_value_seed_skip_ignored ==
    /\ pc = "map_value"
    /\ LET r == IF ValueShape(cur, key) = TIgnored THEN Ok(Unit)
                ELSE PgValueDeserializer_deserialize(ColAt(index), ValueShape(cur, key))
       IN  /\ reads' = Append(reads, index)
           /\ index' = index + 1
           /\ IF r.ok
              THEN /\ out' = Append(out, Entry(key, r.val))
                   /\ pc' = "map_key"
                   /\ UNCHANGED <<result, route>>
              ELSE /\ Return(r, route)
                   /\ UNCHANGED out
    /\ UNCHANGED <<row, shape, cur, wrap, iter, key, ended>>

\* next_value_seed with a failed value replaced by a default
next_value_seed_default_on_error ==
    /\ pc = "map_value"
    /\ LET r == PgValueDeserializer_deserialize(ColAt(index), ValueShape(cur, key))
       IN  /\ reads' = Append(reads, index)
           /\ index' = index + 1
           /\ out' = Append(out, Entry(key, IF r.ok THEN r.val ELSE Unit))
           /\ pc' = "map_key"
           /\ UNCHANGED <<result, route>>
    /\ UNCHANGED <<row, shape, cur, wrap, iter, key, ended>>

\* PgRowMapAccess::next_value_seed
next_value_seed_no_advance ==
    /\ pc = "map_value"
    /\ LET r == PgValueDeserializer_deserialize(ColAt(index), ValueShape(cur, key))
       IN  /\ reads' = Append(reads, index)
           /\ IF r.ok
              THEN /\ out' = Append(out, Entry(key, r.val))
                   /\ pc' = "map_key"
                   /\ UNCHANGED <<result, route>>
              ELSE /\ Return(r, route)
                   /\ UNCHANGED out
    /\ UNCHANGED <<row, shape, cur, wrap, index, iter, key, ended>>

next_value_seed ==
    /\ pc = "map_value"
    /\ LET r == PgValueDeserializer_deserialize(ColAt(index), ValueShape(cur, key))
       IN  /\ reads' = Append(reads, index)
           /\ index' = index + 1
           /\ IF r.ok
              THEN /\ out' = Append(out, Entry(key, r.val))
                   /\ pc' = "map_key"
                   /\ UNCHANGED <<result, route>>
              ELSE /\ Return(r, route)
                   /\ UNCHANGED out
    /\ UNCHANGED <<row, shape, cur, wrap, iter, key, ended>>

\* visit_map returns after the access has ended
visit_map_return ==
    /\ pc = "map_key" /\ ended
    /\ Return(MapResult(cur, OutKeys, OutVals), route)
    /\ UNCHANGED <<row, shape, cur, wrap, index, iter, out, key, ended, reads>>

Next ==
    \/ deserialize_option
    \/ deserialize_newtype_struct
    \/ deserialize_any
    \/ deserialize_map
    \/ deserialize_seq
    \/ deserialize_tuple
    \/ deserialize_struct
    \/ next_element_seed
    \/ PgArraySeqAccess_next_element_seed
    \/ visit_seq_return
    \/ next_key_seed
    \/ next_value_seed
    \/ visit_map_return

Spec == Init /\ [][Next]_vars

\* ------------------------------------------------------------------------
\* Properties
\* ------------------------------------------------------------------------
Done == pc = "done"
Dispatched == pc # "entry"
IsDocTag(tag) == tag \in {"JSON", "JSONB"}
\* the column behind the i-th value handed out by a row view
ViewCol(i) == row[i]

\* a non-null column of a scalar tag asked for as the scalar of its tag (or a
\* wider integer): the value a caller expects is the column's value
MatchesScalar(col, s) ==
    /\ ~col.null
    /\ \/ col.tag = "BOOL" /\ s.k = "bool"
       \/ col.tag = "INT2" /\ s.k \in {"i16", "i32", "i64"}
       \/ col.tag = "INT4" /\ s.k \in {"i32", "i64"}
       \/ col.tag = "INT8" /\ s.k = "i64"
       \/ col.tag = "TEXT" /\ s.k = "string"

\* an array tag asked for with the element shape of its element kind
ArrayMatches(tag, s) ==
    \/ tag \in {"TEXT[]", "VARCHAR[]"} /\ s.k = "string"
    \/ tag = "INT4[]" /\ s.k \in {"i32", "i64"}
    \/ tag = "INT8[]" /\ s.k = "i64"
    \/ tag = "BOOL[]" /\ s.k = "bool"
    \/ tag \in {"JSON[]", "JSONB[]"} /\ s.k = "json"

\* a document payload that is well formed for its tag: one JSON text, behind
\* the version byte for JSONB
WellFormedDoc(tag, bytes) ==
    IF tag = "JSONB"
    THEN Len(bytes) = 2 /\ bytes[1] = JsonbVersion /\ bytes[2] \in DocCodes
    ELSE Len(bytes) = 1 /\ bytes[1] \in DocCodes
\* the document such a payload holds
DocOf(bytes) == DocTexts[bytes[Len(bytes)] - 1]

\* C1: for every row with more than one column a record or map request is
\* served by the name-keyed Map view of the row, whatever the tags of the
\* columns are (document reconciliation only for a 1-column document row)
C1_MultiColumnRecordUsesMapView ==
    (Dispatched /\ num_cols > 1 /\ cur.k \in {"struct", "map"}) => route = "rowmap"

\* C2: for every row with more than one column a sequence or tuple request is
\* served by the positional Sequence view, whatever the tag of the first
\* column is: element i of the result is the decode of column i
C2_MultiColumnSeqUsesSeqView ==
    (Dispatched /\ num_cols > 1 /\ cur.k \in {"vec", "tuple"}) =>
        /\ route = "rowseq"
        /\ \A i \in DOMAIN out :
              out[i].v = PgValueDeserializer_deserialize(ViewCol(i), ElemShape(cur, i)).val

\* C7: a 1-column row whose tag is array-suffixed is routed to the array
\* codec for every element kind, never treated as a one-element positional
\* sequence
C7_ArrayTagUsesArrayCodec ==
    (Dispatched /\ num_cols = 1 /\ cur.k \in {"vec", "tuple"}
        /\ ends_with_brackets(ViewCol(1).tag)
        /\ ArrayMatches(ViewCol(1).tag, ElemShape(cur, 1)))
    => route \in {"array", "array_failed"}

\* the elements of an array column as a caller expects them in a Vec<T>
ArrayAsVec(col) ==
    SeqV([i \in DOMAIN col.arr |->
            IF col.arr[i].bytes # <<>>
            THEN DocTexts[col.arr[i].bytes[Len(col.arr[i].bytes)] - 1]
            ELSE col.arr[i].v])
NoNullElem(col) == \A i \in DOMAIN col.arr : ~col.arr[i].null

\* C8: in the Map view of a multi-column row an array-tagged column asked
\* for as a sequence is decoded into the sequence of its elements
C8_MapViewDecodesArrayColumn ==
    \A i \in 1..index :
        ( /\ route = "rowmap" /\ num_cols > 1
          /\ ends_with_brackets(ViewCol(i).tag) /\ ~ViewCol(i).null
          /\ NoNullElem(ViewCol(i))
          /\ ValueShape(cur, ViewCol(i).name).k = "vec"
          /\ ArrayMatches(ViewCol(i).tag, Inner(ValueShape(cur, ViewCol(i).name))) )
        => (Len(out) >= i /\ out[i].v = ArrayAsVec(ViewCol(i)))

DistinctNames == \A i, j \in DOMAIN row : row[i].name = row[j].name => i = j
ColNamed(nm) == row[CHOOSE i \in DOMAIN row : row[i].name = nm]

\* the case C3 is about: a record whose fields are exactly the (distinct)
\* columns, each a scalar of its column's tag, first column no document
C3_Case ==
    /\ shape.k = "struct"
    /\ num_cols >= 1
    /\ ~IsDocTag(row[1].tag)
    /\ DistinctNames
    /\ Len(shape.fs) = num_cols
    /\ Range(FieldNames(shape)) = {row[i].name : i \in DOMAIN row}
    /\ \A i \in DOMAIN row : MatchesScalar(row[i], FieldShape(shape, row[i].name))

\* C3: a row whose first column is no document, decoded into a record whose
\* field names are exactly the distinct column names, gives the record in
\* which each field holds the value of the column of the same name, whatever
\* the order of the columns
C3_RecordFromNamedColumns ==
    (Done /\ C3_Case) =>
        result = Ok(Rec(FieldNames(shape),
                        [j \in DOMAIN shape.fs |-> ColNamed(shape.fs[j].n).v]))

\* C3 witness: a two-column row decoded into a record whose first field is
\* the second column
C3_Witness ==
    Done /\ C3_Case /\ num_cols = 2 /\ row[1].name = shape.fs[2].n /\ result.ok

\* the shape asked of the i-th column handed out by the row's view
ViewShape(i) ==
    IF route = "rowmap" THEN ValueShape(cur, ViewCol(i).name) ELSE ElemShape(cur, i)
IsOptScalar(s) == s.k = "option" /\ Inner(s).k \in ScalarKinds

\* C4: null law.  A NULL column asked for as an optional scalar gives None,
\* asked for as a non-optional scalar gives an error and never a value, for
\* the single column of a 1-column row and for every column a Map or
\* Sequence view hands out; a non-null column asked for as an optional gives
\* Some of what the non-optional request gives
C4_NullLaw ==
    /\ (Done /\ num_cols = 1 /\ row[1].null /\ IsOptScalar(shape))
            => result = Ok(None)
    /\ (Done /\ num_cols = 1 /\ row[1].null /\ shape.k \in ScalarKinds)
            => ~result.ok
    /\ (Done /\ num_cols = 1 /\ shape.k = "option" /\ MatchesScalar(row[1], Inner(shape)))
            => result = Ok(Some(row[1].v))
    /\ \A i \in 1..index :
        (route \in {"rowseq", "rowmap"}) =>
            /\ (ViewCol(i).null /\ ViewShape(i).k \in ScalarKinds)
                    => (Done /\ ~result.ok /\ Len(out) = i - 1)
            /\ (ViewCol(i).null /\ IsOptScalar(ViewShape(i)))
                    => (Len(out) >= i /\ out[i].v = None)
            /\ (ViewShape(i).k = "option" /\ MatchesScalar(ViewCol(i), Inner(ViewShape(i))))
                    => (Len(out) >= i /\ out[i].v = Some(ViewCol(i).v))

\* C4 witness: a Map view that has handed out a NULL column as None and a
\* non-null one as Some, and has returned
C4_Witness ==
    /\ Done /\ result.ok /\ route = "rowmap" /\ index = 2
    /\ ViewCol(1).null /\ IsOptScalar(ViewShape(1)) /\ out[1].v = None
    /\ ~ViewCol(2).null /\ out[2].v = Some(ViewCol(2).v)

\* a supported array column whose elements are well formed
WellFormedArray(col) ==
    /\ col.tag \in SupportedArrays
    /\ ~col.null
    /\ \A i \in DOMAIN col.arr :
          (~col.arr[i].null /\ ElemTag(col.tag) # "other")
              => WellFormedDoc(ElemTag(col.tag), col.arr[i].bytes)
\* element i as a caller expects it
ElemValue(e) == IF e.bytes # <<>> THEN DocOf(e.bytes) ELSE e.v

C5_Case ==
    /\ num_cols = 1
    /\ WellFormedArray(row[1])
    /\ shape.k = "vec" /\ Inner(shape).k = "option"
    /\ ArrayMatches(row[1].tag, Inner(Inner(shape)))

\* C5: array law.  A 1-column row holding a TEXT[] / VARCHAR[] / INT4[] /
\* BOOL[] / JSON[] / JSONB[] array of length L, decoded as a sequence of
\* optional elements, gives exactly L items, item i being None iff element
\* i is NULL and Some(element i) otherwise
C5_ArrayLaw ==
    (Done /\ C5_Case) =>
        result = Ok(SeqV([i \in DOMAIN row[1].arr |->
                            IF row[1].arr[i].null THEN None
                            ELSE Some(ElemValue(row[1].arr[i]))]))

\* C5 witness: ["a", NULL] of TEXT[] decoded as Vec<Option<String>>
C5_Witness ==
    /\ Done /\ C5_Case /\ result.ok
    /\ row[1].tag = "TEXT[]" /\ Len(row[1].arr) = 2
    /\ ~row[1].arr[1].null /\ row[1].arr[2].null

\* the number of elements the array access has yielded
Yielded == Len(ColAt(0).arr) - Len(iter)

\* C6: when a NULL array element is asked for with a non-optional element
\* shape the decode fails with "unexpected null in non-optional array
\* element": from_pg_row returns that error, not a shortened or defaulted
\* sequence, and the elements before the NULL are in no result
C6_NullInNonOptionalElement ==
    (route = "array") =>
        \A i \in 1..Yielded :
            (ColAt(0).arr[i].null /\ ElemShape(cur, i).k # "option") =>
                /\ Done
                /\ result = Err("unexpected null in non-optional array element")
                /\ Len(out) = i - 1

\* C6 witness: the error was returned after an element had been decoded
C6_Witness ==
    /\ Done /\ route = "array" /\ Len(out) >= 1
    /\ result.err = "unexpected null in non-optional array element"

\* the case C9 is about: one document column holding an object, a record
\* target with one declared field
C9_Case ==
    /\ num_cols = 1
    /\ IsDocTag(row[1].tag) /\ ~row[1].null
    /\ WellFormedDoc(row[1].tag, row[1].bytes)
    /\ DocOf(row[1].bytes).t = "obj"
    /\ shape.k = "struct" /\ Len(shape.fs) = 1

\* C9: reconciliation rule, N = 1.  If the object has the key f the record
\* is decoded directly from the object (f gets object[f]); otherwise the
\* whole object becomes the value of f
C9_ReconcileOneField ==
    (Done /\ C9_Case) =>
        LET doc == DocOf(row[1].bytes)
            f == shape.fs[1].n
            has == f \in Range(doc.ks)
            src == IF has THEN doc.vs[IndexOf(doc.ks, f)] ELSE doc
            r == DocDeserialize(src, shape.fs[1].s)
        IN  /\ route = IF has THEN "doc_direct" ELSE "doc_wrap"
            /\ result.ok = r.ok
            /\ r.ok => result = Ok(Rec(<<f>>, <<r.val>>))

\* C9 witness: a record decoded directly from an object that has the key
C9_Witness ==
    Done /\ C9_Case /\ route = "doc_direct" /\ result.ok

Doc123 == JObj(<<"one", "three", "two">>, <<JNum(1), JNum(3), JNum(2)>>)
Rec123 == Rec(<<"one", "two", "three">>, <<IntV(1), IntV(2), IntV(3)>>)
C10_Case ==
    /\ num_cols = 1
    /\ row[1].tag = "JSON" /\ ~row[1].null
    /\ row[1].bytes = <<CodeOf(Doc123)>>
    /\ shape = JsonRecord

\* C10 as stated: target {json_record: {one, two, three}} over the document
\* {"one":1,"two":2,"three":3} gives json_record = {one:1, two:2, three:3}
\* through the direct-decode branch of the N = 1 rule
C10_DirectBranch ==
    (Done /\ C10_Case) =>
        (result = Ok(Rec(<<"json_record">>, <<Rec123>>)) /\ route = "doc_direct")

\* C10 amended: the same result is produced by the wrap branch of the N = 1
\* rule, since json_record is no key of the document
C10_WrapBranch ==
    (Done /\ C10_Case) =>
        (result = Ok(Rec(<<"json_record">>, <<Rec123>>)) /\ route = "doc_wrap")

\* C10 witness: that decode has returned
C10_Witness ==
    Done /\ C10_Case /\ result.ok /\ route = "doc_wrap"

\* the case C11 is about: the column at the cursor is a document column
\* holding an object, the target a record with more than one declared field
C11_Case ==
    /\ num_cols >= 1
    /\ IsDocTag(row[1].tag) /\ ~row[1].null
    /\ WellFormedDoc(row[1].tag, row[1].bytes)
    /\ DocOf(row[1].bytes).t = "obj"
    /\ shape.k = "struct" /\ Len(shape.fs) > 1

\* C11: reconciliation rule, N > 1.  The record is decoded directly from the
\* object (every field from the member of its name) iff every declared field
\* name is a key of the object; if one is missing, be it the name of an
\* optional field, the decode fails with the error that lists the expected
\* names and the keys found, and no record is produced
C11_ReconcileManyFields ==
    (Done /\ C11_Case) =>
        LET doc == DocOf(row[1].bytes)
            all == \A i \in DOMAIN shape.fs : shape.fs[i].n \in Range(doc.ks)
            rs == [i \in DOMAIN shape.fs |->
                     DocDeserialize(doc.vs[IndexOf(doc.ks, shape.fs[i].n)], shape.fs[i].s)]
        IN  IF all
            THEN /\ route = "doc_allkeys"
                 /\ result.ok = AllOk(rs)
                 /\ AllOk(rs) => result = Ok(Rec(FieldNames(shape), Vals(rs)))
            ELSE /\ route = "doc_missing"
                 /\ result = MissingKeys(FieldNames(shape), doc.ks)

\* C11 witness: {"f":1} decoded into a record of two optional fields f and g
\* has failed with the missing-keys error
C11_Witness ==
    /\ Done /\ C11_Case /\ num_cols = 1
    /\ DocOf(row[1].bytes) = JObj(<<"f">>, <<JNum(1)>>)
    /\ shape = TStruct(<<Fld("f", TOption(TI32)), Fld("g", TOption(TI32))>>)
    /\ result = MissingKeys(<<"f", "g">>, <<"f">>)

\* a JSONB payload that is empty or does not start with the version byte
BadEnvelope(bytes) == bytes = <<>> \/ bytes[1] # JsonbVersion
BadJsonb(col) == col.tag = "JSONB" /\ ~col.null /\ BadEnvelope(col.bytes)
BadJsonbArray(col) ==
    /\ col.tag = "JSONB[]" /\ ~col.null
    /\ \E i \in DOMAIN col.arr : ~col.arr[i].null /\ BadEnvelope(col.arr[i].bytes)
\* a JSON text as it stands, no version byte before it
PlainText(bytes) == Len(bytes) = 1 /\ bytes[1] \in DocCodes

\* C12: envelope errors.  A JSONB document whose payload is empty or does not
\* start with byte 1 makes from_pg_row return an error, never a value: as the
\* single column of a row whatever the target, as a column handed out by the
\* Map or Sequence view (no entry is delivered for it), and as an element of
\* a JSONB[] array decoded by the array access (no element is yielded at
\* all).  A JSON payload is parsed
\* as it stands, without any version byte
C12_EnvelopeErrors ==
    /\ (Done /\ num_cols = 1 /\ BadJsonb(row[1])) => ~result.ok
    /\ \A i \in 1..index :
          (route \in {"rowseq", "rowmap"} /\ BadJsonb(ViewCol(i)))
              => (Done /\ ~result.ok /\ Len(out) = i - 1)
    /\ (Dispatched /\ num_cols = 1 /\ BadJsonbArray(row[1])
            /\ cur.k \notin {"struct", "map", "flatstruct"})
          => (Done /\ ~result.ok /\ route = "array_failed" /\ out = <<>>)
    /\ (Done /\ num_cols = 1 /\ row[1].tag = "JSON" /\ ~row[1].null
            /\ PlainText(row[1].bytes) /\ shape = TJson)
          => result = Ok(DocOf(row[1].bytes))
    /\ (Dispatched /\ num_cols = 1 /\ row[1].tag = "JSON[]" /\ ~row[1].null
            /\ AcceptsSeq(cur)
            /\ \A i \in DOMAIN row[1].arr :
                  ~row[1].arr[i].null => PlainText(row[1].arr[i].bytes))
          => route = "array"

\* C12 witness: the Map view has delivered its first column and failed on
\* the JSONB column after it, whose payload lacks the version byte
C12_Witness ==
    /\ Done /\ route = "rowmap" /\ index = 2 /\ Len(out) = 1
    /\ BadJsonb(ViewCol(2)) /\ ViewCol(2).bytes # <<>>
    /\ result = Err("Failed to decode JSON/JSONB")

\* what parsing payload P as JSON text gives a caller asking for the document
ParsedAs(P) ==
    IF PlainText(P) THEN Ok(DocOf(P)) ELSE Err("Failed to decode JSON/JSONB")

\* C13: envelope equivalence.  A JSONB column whose payload is byte 1 followed
\* by P and a JSON column whose payload is P decode to the same outcome, the
\* document P denotes or a failure: exactly the version byte is stripped
C13_EnvelopeEquivalence ==
    (Done /\ num_cols = 1 /\ ~row[1].null /\ shape = TJson) =>
        /\ (row[1].tag = "JSON") =>
              /\ result = ParsedAs(row[1].bytes)
              /\ PgJson_decode("JSONB", FALSE, <<JsonbVersion>> \o row[1].bytes)
                    = PgJson_decode("JSON", FALSE, row[1].bytes)
        /\ (row[1].tag = "JSONB" /\ ~BadEnvelope(row[1].bytes)) =>
              /\ result = ParsedAs(Tail(row[1].bytes))
              /\ PgJson_decode("JSONB", FALSE, row[1].bytes)
                    = PgJson_decode("JSON", FALSE, Tail(row[1].bytes))

\* C13 witness: a JSONB payload of the version byte and a JSON text has been
\* decoded to the document of that text
C13_Witness ==
    /\ Done /\ num_cols = 1 /\ row[1].tag = "JSONB" /\ ~row[1].null
    /\ shape = TJson
    /\ row[1].bytes = <<JsonbVersion, CodeOf(ObjOne)>>
    /\ result = Ok(ObjOne)

\* C14: Map view ordering and pairing.  A row decoded as a key-value mapping
\* offers the consumer one entry per column in column order: the k-th key is
\* the name of column k and the value delivered after it is the decode of
\* column k; a decode that returns a mapping has offered every column; two
\* columns of one name are both offered, and the only failure is the failed
\* decode of a column's value
C14_MapViewOrderAndPairing ==
    (route = "rowmap" /\ cur.k = "map") =>
        /\ Len(out) <= num_cols
        /\ \A i \in DOMAIN out :
              /\ out[i].k = ViewCol(i).name
              /\ Ok(out[i].v) = PgValueDeserializer_deserialize(ViewCol(i), Inner(cur))
              /\ MatchesScalar(ViewCol(i), Inner(cur)) => out[i].v = ViewCol(i).v
        /\ (pc = "map_value") => (index = Len(out) /\ key = ColAt(index).name)
        /\ (Done /\ result.ok) =>
              /\ Len(out) = num_cols
              /\ result = Ok(HashMapOf([i \in DOMAIN row |-> row[i].name], OutVals))
        /\ (Done /\ ~result.ok) =>
              /\ Len(out) < num_cols
              /\ ~PgValueDeserializer_deserialize(ViewCol(Len(out) + 1), Inner(cur)).ok

\* C14 witness: two columns of the same name and different values have both
\* been offered, in column order, and the mapping has been returned
C14_Witness ==
    /\ Done /\ result.ok /\ route = "rowmap" /\ cur.k = "map"
    /\ num_cols = 2 /\ row[1].name = row[2].name
    /\ Len(out) = 2 /\ out[1].v # out[2].v
    /\ out[1].k = out[2].k

\* the named fields of a record, those of its flattened sub-records included
RECURSIVE Leaves(_)
Leaves(s) ==
    IF s.k \in {"struct", "flatstruct"}
    THEN UNION { IF s.fs[i].s.k = "flatten" THEN Leaves(Inner(s.fs[i].s)) ELSE {s.fs[i]} :
                 i \in DOMAIN s.fs }
    ELSE {}
LeafNames(s) == {f.n : f \in Leaves(s)}
\* its flattened key-value map fields
RECURSIVE Rests(_)
Rests(s) ==
    CASE s.k = "map" -> {s}
      [] s.k = "flatstruct" ->
            UNION { IF s.fs[i].s.k = "flatten" THEN Rests(Inner(s.fs[i].s)) ELSE {} :
                    i \in DOMAIN s.fs }
      [] OTHER -> {}

\* the value a caller expects for (sub-)record s of the target: a named field
\* holds the column of its name, a flattened map the columns no field names
RECURSIVE Flattened(_)
Flattened(s) ==
    IF s.k = "map"
    THEN LET unclaimed(c) == c.name \notin LeafNames(shape)
             cs == SelectSeq(row, unclaimed)
         IN  MapV([i \in DOMAIN cs |-> cs[i].name], [i \in DOMAIN cs |-> cs[i].v])
    ELSE Rec(FieldNames(s),
             [i \in DOMAIN s.fs |->
                 IF s.fs[i].s.k = "flatten" THEN Flattened(Inner(s.fs[i].s))
                 ELSE ColNamed(s.fs[i].n).v])

\* the case C15 is about: a record with flattened fields over a row of
\* distinct names in which every named field finds a column of its type and
\* every other column fits the flattened map
C15_Case ==
    /\ shape.k = "flatstruct"
    /\ DistinctNames
    /\ \A f \in Leaves(shape) :
          \E i \in DOMAIN row : row[i].name = f.n /\ MatchesScalar(row[i], f.s)
    /\ \A i \in DOMAIN row :
          row[i].name \notin LeafNames(shape) =>
              /\ Rests(shape) # {}
              /\ \A m \in Rests(shape) : MatchesScalar(row[i], Inner(m))

\* C15: flatten.  A record with flattened sub-records is decoded from the Map
\* view of the row whatever the columns are; each column is delivered to the
\* field of its name, at whatever depth of flattening, and a flattened map
\* receives exactly the columns no field names
C15_Flatten ==
    /\ (Dispatched /\ shape.k = "flatstruct") => route = "rowmap"
    /\ (Done /\ C15_Case) => result = Ok(Flattened(shape))

\* C15 witness: record {f, flatten the_rest} over the columns (g = 7, f = 42)
\* has been decoded to f = 42, the_rest = {g: 7}
C15_Witness ==
    /\ Done /\ C15_Case /\ shape = FlatOneAndRest
    /\ num_cols = 2 /\ row[1].name = "g" /\ row[1].v = IntV(7) /\ row[2].v = IntV(42)
    /\ result = Ok(Rec(<<"f", "the_rest">>, <<IntV(42), MapV(<<"g">>, <<IntV(7)>>)>>))

\* the width of an integer tag and of an integer target, and the visit call
\* of the tag's width
TagBits(tag) == CASE tag = "INT2" -> 16 [] tag = "INT4" -> 32 [] OTHER -> 64
KindBits(k) == CASE k = "i16" -> 16 [] k = "i32" -> 32 [] OTHER -> 64
TagVisit(tag) == CASE tag = "INT2" -> "i16" [] tag = "INT4" -> "i32" [] OTHER -> "i64"

\* C16: integer round trip with widening.  A non-null INT2 / INT4 / INT8
\* column holding v decodes to v for every signed integer target at least as
\* wide as the tag, the extreme values of each width included; the target's
\* builder is given the value by the visit call of the tag's own width
C16_IntegerWidening ==
    (Done /\ num_cols = 1 /\ ~row[1].null /\ row[1].tag \in {"INT2", "INT4", "INT8"}) =>
        /\ (shape.k \in IntKinds /\ KindBits(shape.k) >= TagBits(row[1].tag))
              => result = Ok(row[1].v)
        /\ (shape = TContent)
              => result = Ok(Content(TagVisit(row[1].tag), row[1].v))

\* C16 witness: the least 16-bit integer of an INT2 column has been decoded
\* into a 64-bit target
C16_Witness ==
    /\ Done /\ num_cols = 1 /\ row[1].tag = "INT2" /\ row[1].v = IntV(I16Min)
    /\ shape = TI64 /\ result = Ok(IntV(I16Min))

\* a row that a caller decodes into record s field by field: the columns
\* are exactly the fields of s, each of its field's type, no document first
RecordCase(s) ==
    /\ s.k = "struct"
    /\ num_cols >= 1
    /\ ~IsDocTag(row[1].tag)
    /\ DistinctNames
    /\ Len(s.fs) = num_cols
    /\ Range(FieldNames(s)) = {row[i].name : i \in DOMAIN row}
    /\ \A i \in DOMAIN row : MatchesScalar(row[i], FieldShape(s, row[i].name))

\* C17: newtype transparency.  Decoding a row into a newtype around T gives
\* the wrapper of what decoding the row into T gives, value or error: the
\* wrapper reads no column, moves no cursor and chooses no route, the
\* dispatch is made for T, and the result is T's result inside the wrapper
C17_NewtypeTransparency ==
    (shape.k = "newtype") =>
        LET T == Inner(shape)
        IN  /\ (pc = "entry" /\ cur = T) =>
                  (wrap = <<"newtype">> /\ reads = <<>> /\ index = 0
                      /\ route = "" /\ out = <<>> /\ result = Pending)
            /\ Dispatched => (cur = T /\ wrap = <<"newtype">>)
            /\ (Done /\ result.ok) => result.val.t = "newtype"
            /\ (Done /\ num_cols = 0 /\ T.k \in ScalarKinds)
                  => result = MapOk(VisitPrim(T, Ev("unit", Unit)), Newtype)
            /\ (Done /\ num_cols = 1 /\ T.k \in ScalarKinds /\ ~row[1].null
                    /\ ~ends_with_brackets(row[1].tag))
                  => result = MapOk(PgValueDeserializer_deserialize_any(row[1], T), Newtype)
            /\ (Done /\ num_cols = 1 /\ T.k \in ScalarKinds /\ row[1].null)
                  => ~result.ok
            /\ (Done /\ RecordCase(T))
                  => result = Ok(Newtype(Rec(FieldNames(T),
                                     [j \in DOMAIN T.fs |-> ColNamed(T.fs[j].n).v])))

\* C17 witness: an INT4 column has been decoded into the newtype around i32
C17_Witness ==
    /\ Done /\ shape = TNewtype(TI32) /\ num_cols = 1
    /\ row[1].tag = "INT4" /\ ~row[1].null
    /\ result = Ok(Newtype(row[1].v))

\* C18: a row with 0 columns is decoded without any column being asked of the
\* row and never ends in an access error for column 0, whichever entry point
\* the target calls (scalar-like, optional, sequence / tuple, map, record)
C18_EmptyRowReadsNothing ==
    (Done /\ num_cols = 0) => (reads = <<>> /\ result.err # "access error")

\* the dispatch table: the visit call a non-null value of each tag arrives by
TagKind(tag) ==
    CASE tag = "BOOL" -> "bool"
      [] tag = "INT2" -> "i16"
      [] tag = "INT4" -> "i32"
      [] tag = "INT8" -> "i64"
      [] tag = "FLOAT4" -> "f32"
      [] tag \in {"FLOAT8", "NUMERIC"} -> "f64"
      [] tag = "BYTEA" -> "bytes"
      [] OTHER -> "string"

\* C19: scalar dispatch table.  The kind a non-null value is delivered as
\* depends on its tag alone: bool for BOOL, i16 / i32 / i64 for INT2 / INT4 /
\* INT8, f32 for FLOAT4, f64 for FLOAT8 and NUMERIC, bytes for BYTEA, string
\* for CHAR, TEXT, DATE, TIME, TIMETZ, TIMESTAMP, TIMESTAMPTZ, INTERVAL, UUID
\* and every tag without an arm; JSON and JSONB go to the document decode;
\* when the driver's decode of the value fails the decode fails, no default
\* value is delivered
C19_ScalarDispatchTable ==
    /\ (Done /\ num_cols = 1 /\ ~row[1].null /\ shape = TContent
            /\ ~IsDocTag(row[1].tag) /\ ~ends_with_brackets(row[1].tag)) =>
          /\ route = "scalar"
          /\ IF row[1].dec
             THEN result.ok /\ result.val.t = "content"
                  /\ result.val.ks = <<TagKind(row[1].tag)>>
             ELSE ~result.ok
    /\ (Done /\ num_cols = 1 /\ ~row[1].null /\ shape = TContent /\ IsDocTag(row[1].tag))
          => route = "document"
    /\ \A i \in 1..index :
          (route \in {"rowseq", "rowmap"} /\ ViewShape(i) = TContent
              /\ ~ViewCol(i).null /\ ~IsDocTag(ViewCol(i).tag)) =>
            IF ViewCol(i).dec
            THEN Len(out) >= i /\ out[i].v.ks = <<TagKind(ViewCol(i).tag)>>
            ELSE Done /\ ~result.ok /\ Len(out) = i - 1

\* C19 witness: a NUMERIC column has been delivered as f64
C19_Witness ==
    /\ Done /\ num_cols = 1 /\ row[1].tag = "NUMERIC" /\ shape = TContent
    /\ result = Ok(Content("f64", row[1].v))

\* the case C20 is about: the column at the cursor is a document column
\* whose document is no object, the target a record
C20_Case ==
    /\ num_cols >= 1
    /\ IsDocTag(row[1].tag) /\ ~row[1].null
    /\ WellFormedDoc(row[1].tag, row[1].bytes)
    /\ DocOf(row[1].bytes).t # "obj"
    /\ shape.k = "struct"

\* C20: a document that is no object (null, bool, number, string, array)
\* bypasses reconciliation whatever the number of declared fields: the
\* record's visitor is offered the document value itself (an array fills the
\* fields by position, any other value is refused by the record), nothing is
\* wrapped and no missing-keys error is raised
C20_NonObjectBypassesReconciliation ==
    (Done /\ C20_Case) =>
        LET doc == DocOf(row[1].bytes)
            n == IF Len(doc.vs) < Len(shape.fs) THEN Len(doc.vs) ELSE Len(shape.fs)
            rs == [i \in 1..n |-> DocDeserialize(doc.vs[i], shape.fs[i].s)]
        IN  /\ route = "doc_nonobject"
            /\ result.err # "JSON object missing expected keys"
            /\ IF doc.t = "arr"
               THEN IF Len(doc.vs) = Len(shape.fs) /\ AllOk(rs)
                    THEN result = Ok(Rec(FieldNames(shape), Vals(rs)))
                    ELSE ~result.ok
               ELSE result = Err("invalid type")

\* C20 witness: the array document [1] has filled the one field of a record
\* by position
C20_Witness ==
    /\ Done /\ C20_Case /\ num_cols = 1
    /\ DocOf(row[1].bytes) = JArr(<<JNum(1)>>)
    /\ shape = TStruct(<<Fld("f", TI32)>>)
    /\ result = Ok(Rec(<<"f">>, <<IntV(1)>>))

\* the case C21 is about: a single INTERVAL column that the driver decodes,
\* asked for as a string
C21_Case ==
    /\ num_cols = 1 /\ row[1].tag = "INTERVAL" /\ ~row[1].null /\ row[1].dec
    /\ shape = TString

\* C21: interval conversion.  The duration rendered to the string is
\* days * 86400 s + microseconds us exactly (its nanoseconds lie in
\* 0 .. 10^9 - 1, are whole microseconds, and seconds and nanoseconds add up
\* to the interval's microseconds once the days are taken off), for negative
\* as for positive microseconds, and the string is the one every interval
\* with the same days and microseconds gives, whatever its months
C21_IntervalConversion ==
    (Done /\ C21_Case) =>
        LET days == row[1].v.vs[2].n
            microseconds == row[1].v.n
            d == result.val
        IN  /\ result.ok
            /\ d.t = "str" /\ d.ks = <<"to_string", "duration">>
            /\ d.vs[1].n >= 0 /\ d.vs[1].n < 1000000000
            /\ d.vs[1].n % 1000 = 0
            /\ (d.n - days * 86400) * 1000000 + d.vs[1].n \div 1000 = microseconds
            /\ \A months \in {0, 1, 3, 7, 12} :
                  PgValueDeserializer_deserialize_any(
                      [row[1] EXCEPT !.v = PgInterval(months, days, microseconds)],
                      shape) = result

\* C21 witness: the interval of -1.5 s has been rendered as the duration
\* of -2 s + 500,000,000 ns
C21_Witness ==
    /\ Done /\ C21_Case
    /\ row[1].v = PgInterval(0, 0, -1500000)
    /\ result = Ok(Text("to_string", Duration(-2, 500000000)))

\* a step in which a row view fetches the column under the cursor
ViewFetch ==
    /\ pc \in {"seq", "map_value"}
    /\ reads' = Append(reads, index)

\* C22: decode position invariant.  The cursor starts at 0 and every step
\* leaves it alone or adds exactly 1 to it; it is advanced exactly in the
\* steps in which the Map or Sequence view fetches a column for a value; it
\* never exceeds the column count; while a view is at work it equals the
\* number of values delivered (one more at the moment a fetched value's
\* decode has failed, which ends the decode); and once it equals the column
\* count every step of the view reports the end or returns, reading nothing
C22_CursorInvariant ==
    /\ index = 0
    /\ [][ /\ index' \in {index, index + 1}
           /\ index' <= num_cols
           /\ (index' = index + 1) <=> ViewFetch
           /\ (route' \in {"rowseq", "rowmap"} /\ (~Done' \/ result'.ok))
                 => index' = Len(out')
           /\ (route' \in {"rowseq", "rowmap"} /\ Done' /\ ~result'.ok /\ ViewFetch)
                 => index' = Len(out') + 1
           /\ (pc \in {"seq", "map_key"} /\ index = num_cols)
                 => /\ reads' = reads /\ index' = index /\ out' = out
                    /\ ended' \/ Done'
         ]_vars

\* C22 witness: the Map view has delivered both columns of a row, the cursor
\* stands at the column count and the view has reported the end
C22_Witness ==
    /\ pc = "map_key" /\ route = "rowmap" /\ ended
    /\ num_cols = 2 /\ index = num_cols /\ Len(out) = 2
    /\ reads = <<0, 0, 1>>

\* C23: exact consumption.  A successful decode of a tuple through the
\* Sequence view implies that the row has exactly as many columns as the
\* tuple has elements and that the cursor ends at that number; a successful
\* decode through the Map view (map, record, record with flattened fields)
\* ends with the cursor at the column count
C23_ExactConsumption ==
    /\ (Done /\ result.ok /\ route = "rowseq" /\ cur.k = "tuple")
          => (num_cols = Len(cur.fs) /\ index = num_cols)
    /\ (Done /\ result.ok /\ route = "rowmap") => index = num_cols

\* the type the target declares for the i-th column of a row view: the
\* element type at its position, the type of the field (at whatever depth of
\* flattening) or of the map it belongs to
DeclaredShape(i) ==
    LET nm == row[i].name
    IN  CASE route = "rowseq" -> ElemShape(cur, i)
          [] cur.k = "flatstruct" ->
                IF nm \in LeafNames(cur)
                THEN (CHOOSE f \in Leaves(cur) : f.n = nm).s
                ELSE IF Rests(cur) # {} THEN Inner(CHOOSE m \in Rests(cur) : TRUE)
                ELSE TIgnored
          [] OTHER -> ValueShape(cur, nm)
\* the visitor asks for the i-th value at all
Requested(i) == (route = "rowseq" /\ cur.k = "tuple") => i <= Len(cur.fs)
\* column i cannot be decoded as shape s: the driver's decode fails, the
\* document is malformed or the value is not of type s
Fails(i, s) == ~PgValueDeserializer_deserialize(row[i], s).ok

ArmType(tag) ==
    CASE tag = "FLOAT4" -> "f32"
      [] tag \in {"FLOAT8", "NUMERIC"} -> "f64"
      [] tag = "INT8" -> "i64"
      [] tag = "INT4" -> "i32"
      [] tag = "INT2" -> "i16"
      [] tag = "BOOL" -> "bool"
      [] tag = "DATE" -> "NaiveDate"
      [] tag \in {"TIME", "TIMETZ"} -> "NaiveTime"
      [] tag \in {"TIMESTAMP", "TIMESTAMPTZ"} -> "DateTime"
      [] tag = "UUID" -> "Uuid"
      [] tag = "BYTEA" -> "bytes"
      [] tag = "INTERVAL" -> "PgInterval"
      [] OTHER -> "String"

\* a column whose scalar decode by the driver fails
FailedScalar(col) ==
    ~col.null /\ ~col.dec /\ ~IsDocTag(col.tag)

\* C25: the error returned for a failed scalar decode carries the source
\* type tag of the column and the name of the type the value was being
\* decoded as, for a single column decoded at row level and for a column
\* fetched by the Sequence or Map view
C25_ErrorNamesTargetAndSource ==
    /\ (Done /\ num_cols = 1 /\ route = "scalar" /\ FailedScalar(row[1])) =>
          /\ ~result.ok /\ result.val.t = "msg"
          /\ row[1].tag \in Range(result.val.ks)
          /\ ArmType(row[1].tag) \in Range(result.val.ks)
    /\ \A i \in 1..index :
          (route \in {"rowseq", "rowmap"} /\ FailedScalar(ViewCol(i))) =>
              /\ Done /\ ~result.ok /\ result.val.t = "msg"
              /\ ViewCol(i).tag \in Range(result.val.ks)
              /\ ArmType(ViewCol(i).tag) \in Range(result.val.ks)

\* a row whose columns are, in order, scalars of the element types of tuple s
TupleCase(s) ==
    /\ s.k = "tuple"
    /\ num_cols = Len(s.fs) /\ num_cols > 1
    /\ \A i \in DOMAIN row : MatchesScalar(row[i], s.fs[i].s)

\* C26: a top-level optional request decides presence from column 0 alone.
\* Column 0 NULL: the result is the absent value and column 0 is the only
\* column ever asked of the row, whatever the other columns and the inner
\* shape are.  Column 0 not NULL: the inner shape is dispatched on the whole
\* row with the cursor at 0, and the result is Some of its outcome (a scalar
\* of the single column, a tuple of the columns in order, a record of the
\* columns by name), an inner error staying an error
C26_OptionFromColumnZero ==
    (shape.k = "option" /\ num_cols >= 1) =>
        LET T == Inner(shape)
        IN  /\ (Done /\ row[1].null)
                  => (result = Ok(None) /\ reads = <<0>> /\ index = 0 /\ out = <<>>)
            /\ (pc = "entry" /\ cur = T)
                  => (~row[1].null /\ wrap = <<"some">> /\ reads = <<0>> /\ index = 0
                        /\ route = "" /\ out = <<>> /\ result = Pending)
            /\ (Dispatched /\ ~row[1].null) => (cur = T /\ wrap = <<"some">>)
            /\ (Done /\ ~row[1].null /\ result.ok) => result.val.t = "some"
            /\ (Done /\ num_cols = 1 /\ T.k \in ScalarKinds /\ ~row[1].null
                    /\ ~ends_with_brackets(row[1].tag))
                  => result = MapOk(PgValueDeserializer_deserialize_any(row[1], T), Some)
            /\ (Done /\ TupleCase(T))
                  => result = Ok(Some(SeqV([i \in DOMAIN row |-> row[i].v])))
            /\ (Done /\ RecordCase(T))
                  => result = Ok(Some(Rec(FieldNames(T),
                                     [j \in DOMAIN T.fs |-> ColNamed(T.fs[j].n).v])))

\* C26 witness: an optional tuple over a row whose column 0 is NULL and whose
\* column 1 is not has been decoded as absent, column 1 unread
C26_Witness ==
    /\ Done /\ shape = TOption(TTuple(<<TBool, TI32>>))
    /\ num_cols = 2 /\ row[1].null /\ ~row[2].null
    /\ result = Ok(None) /\ reads = <<0>>

DecodeFails(col) ==
    /\ ~col.null
    /\ IF IsDocTag(col.tag) THEN ~WellFormedDoc(col.tag, col.bytes) ELSE ~col.dec

\* C28: in the Map view a column that names no field of the target record
\* is fetched and decoded like any other when its value is requested: if its
\* decode fails the whole call fails there, otherwise the (discarded) value
\* is delivered and the cursor has moved past it
C28_IgnoredColumnIsDecoded ==
    \A i \in 1..index :
        (route = "rowmap" /\ cur.k = "struct"
            /\ row[i].name \notin Range(FieldNames(cur))) =>
          /\ \E k \in DOMAIN reads : k > 1 /\ reads[k] = i - 1
          /\ IF DecodeFails(row[i])
             THEN /\ Done /\ ~result.ok /\ index = i /\ Len(out) = i - 1
                  /\ result = PgValueDeserializer_deserialize_any(row[i], TContent)
             ELSE /\ Len(out) >= i /\ out[i] = Entry(row[i].name, Unit)
                  /\ (pc \in {"map_key", "map_value"}) => index = Len(out)

\* C28 witness: record {f: i32} over the columns (f = 42, g) where g cannot
\* be decoded: the call has failed at column g although g is no field
C28_Witness ==
    /\ Done /\ route = "rowmap" /\ shape = TStruct(<<Fld("f", TI32)>>)
    /\ num_cols = 2
    /\ row[1].name = "f" /\ row[1].tag = "INT4" /\ ~row[1].null
    /\ row[2].name = "g" /\ DecodeFails(row[2])
    /\ index = 2 /\ Len(out) = 1 /\ ~result.ok

\* C29: PgJson::decode is only ever given a value tagged JSON or JSONB, so
\* its unreachable! arm never runs and no decode panics: the record
\* dispatch and the scalar dispatch call it behind a test of the tag, the
\* array access calls it for the elements of JSON[] and JSONB[] only, which
\* carry the element tag; whatever the column and whatever is asked of it,
\* each of these calls returns, and from_pg_row ends in a value or an error
C29_PgJsonDecodeNeverPanics ==
    /\ Done => ~Panicked(result)
    /\ pc = "entry" => \A i \in DOMAIN row :
          /\ \A s \in {cur, TJson, TContent} :
                ~Panicked(PgValueDeserializer_deserialize(row[i], s))
          /\ row[i].tag \in SupportedArrays =>
                /\ ~Panicked(PgArraySeqAccess_new(ArrayElemType(row[i].tag), row[i]))
                /\ ArrayElemType(row[i].tag) = "PgJson"
                      => ElemTag(row[i].tag) \in {"JSON", "JSONB"}
          /\ ArrayElemType(row[i].tag) = "PgJson" => row[i].tag \in {"JSON[]", "JSONB[]"}
          /\ IsDocTag(row[i].tag) => ~Panicked(decode_raw_pg("PgJson", row[i]))

\* C29 witness: the element of a JSONB[] column has gone through
\* PgJson::decode and been yielded as a document
C29_Witness ==
    /\ Done /\ num_cols = 1 /\ row[1].tag = "JSONB[]" /\ shape = TVec(TJson)
    /\ route = "array" /\ Len(out) = 1 /\ result = Ok(SeqV(<<JNum(1)>>))

====
